---- MODULE Spec2Model ----
(***************************************************************************)
(* Model of the analysis pipeline of backend/analytics: the JSON-safety    *)
(* sanitizer (services.py clean_for_json), the column cleaner              *)
(* (_clean_dataset), the regression and clustering pipelines and the       *)
(* analysis dispatcher (views.py AnalysisViewSet).                         *)
(***************************************************************************)
EXTENDS Integers, Sequences, FiniteSets, TLC

VARIABLES
    sanIn,      \* the structure handed to clean_for_json
    sanOut,     \* what clean_for_json returned
    sanPc,      \* "start" before the call, "cleaned" after it
    clIn,       \* the table handed to _clean_dataset
    clOnce,     \* _clean_dataset(clIn)
    clTwice,    \* _clean_dataset(_clean_dataset(clIn))
    clPc,       \* "start", "once", "twice"
    rgDf,       \* the table handed to linear_regression_analysis
    rgReq,      \* its other arguments: [target, features]
    rgRes,      \* what it returned
    rgPc,       \* "start", "done"
    kmDf,       \* the table handed to clustering_analysis
    kmReq,      \* its other arguments: [n_clusters, features]
    kmRes,      \* what it returned
    kmPc,       \* "start", "done"
    datasets,   \* the Dataset rows: [table, readable], addressed by position
    analyses,   \* the Analysis rows, in creation order
    response,   \* the last HTTP response: [status, body]
    trace,      \* the last request and what its handler did
    callArgs,   \* the arguments of a single call of a service function
    callRes,    \* what that call returned
    callPc      \* "start" before the call, "done" after it

sanVars == <<sanIn, sanOut, sanPc>>
clVars  == <<clIn, clOnce, clTwice, clPc>>
rgVars  == <<rgDf, rgReq, rgRes, rgPc>>
kmVars  == <<kmDf, kmReq, kmRes, kmPc>>
dspVars == <<datasets, analyses, response, trace>>
callVars == <<callArgs, callRes, callPc>>
vars    == <<sanVars, clVars, rgVars, kmVars, dspVars, callVars>>

(***************************************************************************)
(* Result trees.  A Python value is a node [kind, val, keys, items]:       *)
(*   kind "dict"  : keys is the insertion-ordered key list, items the      *)
(*                  values in the same order;                              *)
(*   kind "list"  : items is the element list;                             *)
(*   kind "float" : a Python float (np.float64 is a subclass), val one of  *)
(*                  "nan", "inf", "-inf" or a finite literal;              *)
(*   kind "int", "str", "bool" : other scalars;                            *)
(*   kind "none"  : None;  kind "nat" : a non-float pandas missing scalar  *)
(*                  (pd.NaT, pd.NA).                                       *)
(***************************************************************************)
Scalar(k, v) == [kind |-> k, val |-> v, keys |-> <<>>, items |-> <<>>]
Float(v)     == Scalar("float", v)
Str(v)       == Scalar("str", v)
IntV(v)      == Scalar("int", v)
BoolV(v)     == Scalar("bool", v)
NoneV        == Scalar("none", "None")
NaT          == Scalar("nat", "NaT")
ListV(xs)    == [kind |-> "list", val |-> "", keys |-> <<>>, items |-> xs]
DictV(ks, xs) == [kind |-> "dict", val |-> "", keys |-> ks, items |-> xs]

NonFiniteVals == {"nan", "inf", "-inf"}

\* np.isnan(data) or np.isinf(data) on a float
IsNonFiniteFloat(d) == d.kind = "float" /\ d.val \in NonFiniteVals

\* pd.isna on a scalar that is not a Python float
PdIsNa(d) == d.kind \in {"none", "nat"}

\* a variant that forgets the infinity test of line 28
RECURSIVE clean_for_json_nan_only(_)
clean_for_json_nan_only(data) ==
    IF data.kind = "dict"
    THEN DictV(data.keys, [i \in 1..Len(data.items) |-> clean_for_json_nan_only(data.items[i])])
    ELSE IF data.kind = "list"
    THEN ListV([i \in 1..Len(data.items) |-> clean_for_json_nan_only(data.items[i])])
    ELSE IF data.kind = "float"
    THEN (IF data.val = "nan" THEN NoneV ELSE data)
    ELSE IF PdIsNa(data) THEN NoneV
    ELSE data

\* a variant that turns an infinity into NaN instead of None
RECURSIVE clean_for_json_inf_to_nan(_)
clean_for_json_inf_to_nan(data) ==
    IF data.kind = "dict"
    THEN DictV(data.keys, [i \in 1..Len(data.items) |-> clean_for_json_inf_to_nan(data.items[i])])
    ELSE IF data.kind = "list"
    THEN ListV([i \in 1..Len(data.items) |-> clean_for_json_inf_to_nan(data.items[i])])
    ELSE IF data.kind = "float"
    THEN (IF data.val = "nan" THEN NoneV
          ELSE IF data.val \in NonFiniteVals THEN Scalar("float", "nan") ELSE data)
    ELSE IF PdIsNa(data) THEN NoneV
    ELSE data

\* a variant that replaces every float, finite ones too
RECURSIVE clean_for_json_every_float(_)
clean_for_json_every_float(data) ==
    IF data.kind = "dict"
    THEN DictV(data.keys, [i \in 1..Len(data.items) |-> clean_for_json_every_float(data.items[i])])
    ELSE IF data.kind = "list"
    THEN ListV([i \in 1..Len(data.items) |-> clean_for_json_every_float(data.items[i])])
    ELSE IF data.kind = "float" THEN NoneV
    ELSE IF PdIsNa(data) THEN NoneV
    ELSE data

RECURSIVE clean_for_json(_)
clean_for_json(data) ==
    IF data.kind = "dict"
    THEN DictV(data.keys, [i \in 1..Len(data.items) |-> clean_for_json(data.items[i])])
    ELSE IF data.kind = "list"
    THEN ListV([i \in 1..Len(data.items) |-> clean_for_json(data.items[i])])
    ELSE IF data.kind = "float"
    THEN (IF IsNonFiniteFloat(data) THEN NoneV ELSE data)
    ELSE IF PdIsNa(data) THEN NoneV
    ELSE data

(***************************************************************************)
(* Bounded input structures: every tree of at most MaxNodes nodes over     *)
(* the scalars below.                                                      *)
(***************************************************************************)
MaxNodes == 4

TreeScalars ==
    {Float("nan"), Float("inf"), Float("-inf"), Float("1.5"),
     IntV("7"), Str("s"), BoolV("True"), NoneV, NaT}

KeyNames == <<"a", "b", "c", "d", "e", "f">>

\* a place of a shape where a scalar goes
Slot == Scalar("slot", "")

\* ShapeGen(n) is the sequence g with, for k in 1..n, g[k].t the shapes of
\* exactly k nodes and g[k].f the non-empty sequences of shapes whose node
\* counts add up to k.
RECURSIVE ShapeGen(_)
ShapeGen(n) ==
    IF n = 0 THEN <<>>
    ELSE LET g == ShapeGen(n - 1)
             t == IF n = 1 THEN {Slot, ListV(<<>>), DictV(<<>>, <<>>)}
                  ELSE {ListV(f) : f \in g[n - 1].f}
                       \cup {DictV(SubSeq(KeyNames, 1, Len(f)), f) : f \in g[n - 1].f}
             f == {<<x>> : x \in t}
                  \cup UNION {{<<x>> \o r : x \in g[k].t, r \in g[n - k].f}
                                : k \in 1..(n - 1)}
         IN  Append(g, [t |-> t, f |-> f])

Shapes == LET g == ShapeGen(MaxNodes) IN UNION {g[n].t : n \in 1..MaxNodes}

RECURSIVE SlotCount(_)
RECURSIVE SlotsOf(_, _)
\* the slots of the first m items of a sequence of shapes
SlotsOf(items, m) ==
    IF m = 0 THEN 0 ELSE SlotsOf(items, m - 1) + SlotCount(items[m])

SlotCount(sh) ==
    IF sh.kind = "slot" THEN 1 ELSE SlotsOf(sh.items, Len(sh.items))

\* the shape sh with its slots, in preorder, filled with leaf[off + 1], ...
RECURSIVE Fill(_, _, _)
Fill(sh, leaf, off) ==
    IF sh.kind = "slot" THEN leaf[off + 1]
    ELSE [sh EXCEPT !.items =
            [i \in 1..Len(sh.items) |->
                Fill(sh.items[i], leaf, off + SlotsOf(sh.items, i - 1))]]

(***************************************************************************)
(* Tables.  A table (DataFrame) is a sequence of columns                   *)
(* [name, dtype, cells]; dtype is "number" (int64/float64) or "object".    *)
(* A cell is [k, n, s]:                                                    *)
(*   k = "num"  : the finite number n / Scale;                             *)
(*   k = "nan"  : NaN / Missing;  k = "inf", "ninf" : +/-infinity;         *)
(*   k = "str"  : the text s, a sequence of one-character strings.         *)
(***************************************************************************)
Scale == 100

Num(n)  == [k |-> "num", n |-> n, s |-> <<>>]
NaN     == [k |-> "nan", n |-> 0, s |-> <<>>]
PosInf  == [k |-> "inf", n |-> 0, s |-> <<>>]
NegInf  == [k |-> "ninf", n |-> 0, s |-> <<>>]
Text(s) == [k |-> "str", n |-> 0, s |-> s]

Column(name, dtype, cells) == [name |-> name, dtype |-> dtype, cells |-> cells]

\* pd.api.types.is_numeric_dtype(df[col])
is_numeric_dtype(col) == col.dtype = "number"

\* Series.notna()
NotNa(c) == c.k # "nan"

\* Series.notna().sum()
NotNaCount(cells) == Cardinality({i \in 1..Len(cells) : NotNa(cells[i])})

\* Series.astype(str): a string stays, NaN becomes the text 'nan'
AsStr(c) == IF c.k = "str" THEN c.s ELSE <<"n", "a", "n">>

\* str.replace(ch, '', regex=False)
RemoveChar(s, ch) == SelectSeq(s, LAMBDA x : x # ch)

\* str.strip()
RECURSIVE LStrip(_)
LStrip(s) == IF s # <<>> /\ Head(s) = " " THEN LStrip(Tail(s)) ELSE s

RECURSIVE RStrip(_)
RStrip(s) ==
    IF s # <<>> /\ s[Len(s)] = " " THEN RStrip(SubSeq(s, 1, Len(s) - 1)) ELSE s

Strip(s) == RStrip(LStrip(s))

\* the tokens of line 81
MissingTokens ==
    {<<"n", "a", "n">>, <<"n", "u", "l", "l">>, <<"N", "/", "A">>,
     <<"n", "/", "a">>, <<"N", "U", "L", "L">>, <<>>}

\* lines 72-81 on one cell: the normalized text, or NaN for a missing token
NormalizeCell(c) ==
    LET t == Strip(RemoveChar(RemoveChar(RemoveChar(AsStr(c), ","), "$"), "%"))
    IN  IF t \in MissingTokens THEN NaN ELSE Text(t)

Digits == <<"0", "1", "2", "3", "4", "5", "6", "7", "8", "9">>

IsDigit(ch) == \E d \in 1..Len(Digits) : Digits[d] = ch

DigitVal(ch) == (CHOOSE d \in 1..Len(Digits) : Digits[d] = ch) - 1

\* the value of a digit string
RECURSIVE DigitsVal(_)
DigitsVal(s) ==
    IF s = <<>> THEN 0
    ELSE 10 * DigitsVal(SubSeq(s, 1, Len(s) - 1)) + DigitVal(s[Len(s)])

\* the first two decimals of a fraction digit string, in units of 1/Scale
FracVal(s) ==
    (IF Len(s) >= 1 THEN 10 * DigitVal(s[1]) ELSE 0)
    + (IF Len(s) >= 2 THEN DigitVal(s[2]) ELSE 0)

\* an unsigned decimal literal: digits with at most one point, one digit at least
IsUnsignedNumber(s) ==
    LET dots == {i \in 1..Len(s) : s[i] = "."}
    IN  /\ \A i \in 1..Len(s) : IsDigit(s[i]) \/ s[i] = "."
        /\ Cardinality(dots) <= 1
        /\ \E i \in 1..Len(s) : IsDigit(s[i])

UnsignedVal(s) ==
    LET dots == {i \in 1..Len(s) : s[i] = "."}
        p    == IF dots = {} THEN Len(s) + 1 ELSE CHOOSE i \in dots : TRUE
    IN  Scale * DigitsVal(SubSeq(s, 1, p - 1)) + FracVal(SubSeq(s, p + 1, Len(s)))

\* pd.to_numeric(series, errors='coerce') on one cell
to_numeric(c) ==
    IF c.k # "str" THEN c
    ELSE LET s    == c.s
             neg  == s # <<>> /\ Head(s) = "-"
             sgn  == s # <<>> /\ Head(s) \in {"-", "+"}
             body == IF sgn THEN Tail(s) ELSE s
         IN  IF IsUnsignedNumber(body)
             THEN Num(IF neg THEN 0 - UnsignedVal(body) ELSE UnsignedVal(body))
             ELSE NaN

\* a cleaner that normalizes the column in place and compares against the
\* non-missing count of the column as given
clean_column_in_place(col) ==
    IF is_numeric_dtype(col) THEN col
    ELSE LET temp_series    == [i \in 1..Len(col.cells) |-> NormalizeCell(col.cells[i])]
             numeric_series == [i \in 1..Len(col.cells) |-> to_numeric(temp_series[i])]
         IN  IF 2 * NotNaCount(numeric_series) > NotNaCount(col.cells)
             THEN Column(col.name, "number", numeric_series)
             ELSE Column(col.name, "object", temp_series)

\* a cleaner whose threshold is "at least half"
clean_column_at_least_half(col) ==
    IF is_numeric_dtype(col) THEN col
    ELSE LET temp_series    == [i \in 1..Len(col.cells) |-> NormalizeCell(col.cells[i])]
             numeric_series == [i \in 1..Len(col.cells) |-> to_numeric(temp_series[i])]
         IN  IF 2 * NotNaCount(numeric_series) >= NotNaCount(temp_series)
             THEN Column(col.name, "number", numeric_series)
             ELSE col

\* the body of the loop of _clean_dataset for one column (lines 64-88)
clean_column(col) ==
    IF is_numeric_dtype(col) THEN col
    ELSE LET temp_series    == [i \in 1..Len(col.cells) |-> NormalizeCell(col.cells[i])]
             numeric_series == [i \in 1..Len(col.cells) |-> to_numeric(temp_series[i])]
         IN  IF 2 * NotNaCount(numeric_series) > NotNaCount(temp_series)
             THEN Column(col.name, "number", numeric_series)
             ELSE col

\* _clean_dataset: a cleaned copy, the argument is not modified
clean_dataset(df) == [j \in 1..Len(df) |-> clean_column(df[j])]

(***************************************************************************)
(* DataFrame helpers used by the pipelines.                                *)
(***************************************************************************)
\* list(df.columns)
ColNames(df) == [j \in 1..Len(df) |-> df[j].name]

\* name in df.columns
HasCol(df, name) == \E j \in 1..Len(df) : df[j].name = name

\* df[name]
Col(df, name) == df[CHOOSE j \in 1..Len(df) : df[j].name = name]

\* len(df)
NRows(df) == IF Len(df) = 0 THEN 0 ELSE Len(df[1].cells)

\* df.select_dtypes(include=[np.number]).columns.tolist()
NumericCols(df) == SelectSeq(ColNames(df), LAMBDA c : is_numeric_dtype(Col(df, c)))

\* np.isfinite on one value
IsFinite(c) == c.k = "num"

\* the order of the non-missing values of a numeric column
CellLE(c, d) ==
    \/ c.k = "ninf"
    \/ d.k = "inf"
    \/ (c.k = "num" /\ d.k = "num" /\ c.n <= d.n)

\* the m-th smallest non-missing cell of a column
KthSmallest(cells, m) ==
    LET idx == {i \in 1..Len(cells) : NotNa(cells[i])}
        i0  == CHOOSE i \in idx :
                  /\ Cardinality({h \in idx : CellLE(cells[h], cells[i])
                                              /\ ~CellLE(cells[i], cells[h])}) < m
                  /\ Cardinality({h \in idx : CellLE(cells[h], cells[i])}) >= m
    IN  cells[i0]

\* the mean of two cells, as numpy computes it
Mean2(c, d) ==
    IF c.k = "num" /\ d.k = "num" THEN Num((c.n + d.n) \div 2)
    ELSE IF c.k = "num" THEN d
    ELSE IF d.k = "num" THEN c
    ELSE IF c.k = d.k THEN c
    ELSE NaN

\* Series.median(): NaN cells are skipped; NaN when nothing is left
Median(cells) ==
    LET n == NotNaCount(cells)
    IN  IF n = 0 THEN NaN
        ELSE IF n % 2 = 1 THEN KthSmallest(cells, (n + 1) \div 2)
        ELSE Mean2(KthSmallest(cells, n \div 2), KthSmallest(cells, n \div 2 + 1))

\* Series.fillna(v)
FillNa(cells, v) == [i \in 1..Len(cells) |-> IF NotNa(cells[i]) THEN cells[i] ELSE v]

\* pd.to_numeric(df_clean[col], errors='coerce') on a whole column (line 338)
CoerceColumn(col) ==
    Column(col.name, "number", [i \in 1..Len(col.cells) |-> to_numeric(col.cells[i])])

\* the positions of a sequence that satisfy keep, in order
RECURSIVE KeptRows(_, _)
KeptRows(n, keep) ==
    IF n = 0 THEN <<>>
    ELSE IF keep[n] THEN Append(KeptRows(n - 1, keep), n)
    ELSE KeptRows(n - 1, keep)

(***************************************************************************)
(* What a pipeline entry point hands back: outcome "success" (a result     *)
(* record), "failure" (a record carrying 'error') or "raised" (an          *)
(* exception left the function); steps lists the stages it ran.            *)
(***************************************************************************)
ErrorTree(msg) == DictV(<<"error">>, <<Str(msg)>>)

NoInfo ==
    [features_used |-> <<>>, usable |-> 0, rows_in |-> 0, clusters |-> <<>>, k |-> 0,
     fitted |-> <<>>]

Failure(msg, steps) ==
    [outcome |-> "failure", error |-> msg, steps |-> steps, info |-> NoInfo,
     result |-> ErrorTree(msg)]

Raised(msg, steps) ==
    [outcome |-> "raised", error |-> msg, steps |-> steps, info |-> NoInfo,
     result |-> NoneV]

Success(steps, info, tree) ==
    [outcome |-> "success", error |-> "", steps |-> steps, info |-> info,
     result |-> tree]

(***************************************************************************)
(* linear_regression_analysis (services.py 299-614).  target is a column   *)
(* name or "" (None / empty); features is a list of names, <<>> when       *)
(* omitted or empty; env holds what the libraries hand back: env.fault is  *)
(* the stage in which a library call raises ("none" for no fault),         *)
(* env.metric the float the metrics evaluate to.                           *)
(***************************************************************************)
MinRegressionRows == 5

\* lines 347-363: median imputation of one column, 0 when the median is NaN
RegImpute(cells) ==
    LET m == Median(cells)
    IN  FillNa(cells, IF NotNa(m) THEN m ELSE Num(0))

\* lines 341-369: the rows that are left after imputation and the finite mask
RegUsableRows(df_clean, feature_columns, target_column) ==
    LET X == [f \in 1..Len(feature_columns) |-> RegImpute(Col(df_clean, feature_columns[f]).cells)]
        y == RegImpute(Col(df_clean, target_column).cells)
        mask == [i \in 1..NRows(df_clean) |->
                    /\ \A f \in 1..Len(feature_columns) : IsFinite(X[f][i])
                    /\ IsFinite(y[i])]
    IN  KeptRows(NRows(df_clean), mask)

\* a row test that is one too low
RegTooFewRows_four(n) == n < MinRegressionRows - 1

\* line 373
RegTooFewRows(n) == n < MinRegressionRows

\* lines 376-380
RegTestSize(n) == IF n < 20 THEN 30 ELSE 20

\* lines 347-363: the cells the imputation fills, over the feature columns and
\* the target
RegImputedCells(df_clean, feature_columns, target_column) ==
    Cardinality({p \in (1..Len(feature_columns)) \X (1..NRows(df_clean)) :
                    ~NotNa(Col(df_clean, feature_columns[p[1]]).cells[p[2]])})
    + Cardinality({i \in 1..NRows(df_clean) : ~NotNa(Col(df_clean, target_column).cells[i])})

\* line 593: X.isna().sum().sum() + y.isna().sum() on X and y as they are
\* when the result is built, imputed (lines 347-363) and masked (366-369)
RegMissingHandled(df_clean, feature_columns, target_column) ==
    LET X == [f \in 1..Len(feature_columns) |-> RegImpute(Col(df_clean, feature_columns[f]).cells)]
        y == RegImpute(Col(df_clean, target_column).cells)
        rows == RegUsableRows(df_clean, feature_columns, target_column)
    IN  Cardinality({p \in (1..Len(feature_columns)) \X (1..Len(rows)) :
                        ~NotNa(X[p[1]][rows[p[2]]])})
        + Cardinality({i \in 1..Len(rows) : ~NotNa(y[rows[i]])})

\* lines 564-602: the result record; handled is the count of line 593
RegResultTree(feature_columns, target_column, handled, env) ==
    DictV(<<"analysis_type", "model_performance", "feature_importance",
            "visualizations", "interpretation", "data_info">>,
          <<Str("regression"),
            DictV(<<"train_r2", "test_r2">>, <<Float(env.metric), Float(env.metric)>>),
            DictV(feature_columns, [f \in 1..Len(feature_columns) |-> Float(env.metric)]),
            DictV(IF env.fault = "charts" THEN <<>> ELSE <<"actual_vs_predicted">>,
                  IF env.fault = "charts" THEN <<>> ELSE <<DictV(<<>>, <<>>)>>),
            Str("interpretation"),
            DictV(<<"features_used", "target_column", "missing_values_handled">>,
                  <<ListV([f \in 1..Len(feature_columns) |-> Str(feature_columns[f])]),
                    Str(target_column), IntV(ToString(handled))>>)>>)

\* the steps after the validations (lines 340-602)
RegFit(df_clean, feature_columns, target_column, env, steps0) ==
    LET df_num == [j \in 1..Len(df_clean) |->
                      IF /\ \E f \in 1..Len(feature_columns) : feature_columns[f] = df_clean[j].name
                         /\ ~is_numeric_dtype(df_clean[j])
                      THEN CoerceColumn(df_clean[j]) ELSE df_clean[j]]
        rows   == RegUsableRows(df_num, feature_columns, target_column)
        steps1 == steps0 \o <<"impute", "mask">>
        info   == [NoInfo EXCEPT !.features_used = feature_columns,
                                 !.usable = Len(rows), !.rows_in = NRows(df_clean)]
    IN  IF RegTooFewRows(Len(rows))
        THEN [Failure("Not enough valid data points for regression analysis", steps1)
                EXCEPT !.info = info]
        ELSE IF env.fault = "fit"
        THEN [Failure("Error in regression analysis", steps1 \o <<"split", "fit">>)
                EXCEPT !.info = info]
        ELSE Success(steps1 \o <<"split", "fit", "charts", "sanitize">>, info,
                     clean_for_json(RegResultTree(feature_columns, target_column,
                                                  RegMissingHandled(df_num, feature_columns,
                                                                    target_column),
                                                  env)))

\* lines 316-602: feature selection, the remaining validations and the fit
RegSelectAndFit(df_clean, target_column, feature_columns, env) ==
    LET selected == IF feature_columns = <<>>
                    THEN SelectSeq(NumericCols(df_clean), LAMBDA c : c # target_column)
                    ELSE feature_columns
    IN  IF selected = <<>>
        THEN Failure("No suitable numeric feature columns found", <<"clean">>)
        ELSE IF ~is_numeric_dtype(Col(df_clean, target_column))
        THEN Failure("Target column must be numeric", <<"clean">>)
        ELSE IF \E f \in 1..Len(selected) : ~HasCol(df_clean, selected[f])
        THEN Failure("Feature columns not found", <<"clean">>)
        ELSE RegFit(df_clean, selected, target_column, env, <<"clean">>)

\* a variant that looks up the target only after cleaning
linear_regression_analysis_late_check(df, target_column, feature_columns, env) ==
    LET df_clean == clean_dataset(df)
    IN  IF target_column = "" \/ ~HasCol(df_clean, target_column)
        THEN Failure("Target column not found in dataset", <<"clean">>)
        ELSE RegSelectAndFit(df_clean, target_column, feature_columns, env)

\* a variant that auto-selects every numeric column, the target included
linear_regression_analysis_keep_target(df, target_column, feature_columns, env) ==
    IF target_column = "" \/ ~HasCol(df, target_column)
    THEN Failure("Target column not found in dataset", <<>>)
    ELSE LET df_clean == clean_dataset(df)
         IN  RegSelectAndFit(df_clean, target_column,
                             IF feature_columns = <<>> THEN NumericCols(df_clean)
                             ELSE feature_columns, env)

linear_regression_analysis(df, target_column, feature_columns, env) ==
    IF target_column = ""
    THEN Failure("Target column is required for regression analysis", <<>>)
    ELSE IF ~HasCol(df, target_column)
    THEN Failure("Target column not found in dataset", <<>>)
    ELSE RegSelectAndFit(clean_dataset(df), target_column, feature_columns, env)

(***************************************************************************)
(* clustering_analysis (services.py 616-763).  features is                 *)
(* [given, names]: given = FALSE stands for None.  env.fault is the stage  *)
(* in which a library call raises, env.stride and env.shift decide the     *)
(* labels KMeans.fit_predict hands back (always ids in 0..k-1), env.metric *)
(* the float the inertia evaluates to.                                     *)
(***************************************************************************)
\* line 640: X.fillna(X.median()); a NaN median fills nothing
ClusterImpute(cells) == FillNa(cells, Median(cells))

\* a variant that keeps the rows holding non-finite values
ClusterUsableRows_no_mask(cols) ==
    KeptRows(IF Len(cols) = 0 THEN 0 ELSE Len(cols[1].cells),
             [i \in 1..(IF Len(cols) = 0 THEN 0 ELSE Len(cols[1].cells)) |-> TRUE])

\* lines 637-644: the rows left after imputation and the finite mask
ClusterUsableRows(cols) ==
    LET n    == IF Len(cols) = 0 THEN 0 ELSE Len(cols[1].cells)
        X    == [f \in 1..Len(cols) |-> ClusterImpute(cols[f].cells)]
        mask == [i \in 1..n |-> \A f \in 1..Len(cols) : IsFinite(X[f][i])]
    IN  KeptRows(n, mask)

\* a row test that lets k - 1 usable rows through
ClusterTooFewRows_off_by_one(n, n_clusters) == n < n_clusters - 1

\* lines 633 and 646
ClusterTooFewRows(n, n_clusters) == n < n_clusters

\* KMeans(n_clusters).fit_predict: one label in 0..n_clusters-1 per sample
KMeansLabels(n, n_clusters, env) ==
    [i \in 1..n |-> (env.stride * i + env.shift) % n_clusters]

Abs(n) == IF n < 0 THEN -n ELSE n

\* the quotient num / den rounded to the nearest integer, a tie to the even one
RoundDiv(num, den) ==
    LET q == num \div den
        r == num % den
    IN  IF 2 * r < den THEN q
        ELSE IF 2 * r > den THEN q + 1
        ELSE IF q % 2 = 0 THEN q ELSE q + 1

\* the numbers (in hundredths) of the imputed columns on the usable rows:
\* the X of line 644, one sequence per feature
ClusterData(cols, rows) ==
    [f \in 1..Len(cols) |-> [r \in 1..Len(rows) |-> ClusterImpute(cols[f].cells)[rows[r]].n]]

RECURSIVE SeqSum(_)
SeqSum(xs) == IF xs = <<>> THEN 0 ELSE xs[1] + SeqSum(Tail(xs))

\* the integer square root, by bisection on lo..hi
RECURSIVE ISqrtIn(_, _, _)
ISqrtIn(n, lo, hi) ==
    IF lo >= hi THEN lo
    ELSE LET mid == (lo + hi + 1) \div 2
         IN  IF mid * mid <= n THEN ISqrtIn(n, mid, hi) ELSE ISqrtIn(n, lo, mid - 1)

ISqrt(n) == ISqrtIn(n, 0, 46340)

\* ten times the square root, to the unit while 100 * n fits an integer
SqrtTenths(n) == IF n < 20000000 THEN ISqrt(100 * n) ELSE 10 * ISqrt(n)

\* lines 648-654: the centre of cluster c along one feature, in thousandths.
\* StandardScaler turns x into (x - mean) / std with the population std (a
\* constant column keeps scale 1), KMeans is fitted on the scaled data, and
\* cluster_centers_ holds the mean of the scaled members of each cluster:
\* (N * sum(members) - m * S) / (m * sqrt(N * Q - S^2)).  A cluster without
\* members sits on a sample, here the first one.
ScaledCentre(xs, labels, c) ==
    LET N  == Len(xs)
        S  == SeqSum(xs)
        D  == N * SeqSum([r \in 1..N |-> xs[r] * xs[r]]) - S * S
        M  == {r \in 1..N : labels[r] = c}
        m  == IF M = {} THEN 1 ELSE Cardinality(M)
        sM == IF M = {} THEN xs[1] ELSE SeqSum([r \in 1..N |-> IF r \in M THEN xs[r] ELSE 0])
    IN  IF D = 0 THEN 0
        ELSE RoundDiv(10000 * (N * sM - m * S), m * SqrtTenths(D))

\* kmeans.cluster_centers_ : n_clusters rows of one coordinate per feature
cluster_centers(X, labels, n_clusters) ==
    [c \in 1..n_clusters |-> [f \in 1..Len(X) |-> ScaledCentre(X[f], labels, c - 1)]]

\* the text of a float given in thousandths
MilliText(n) ==
    (IF n < 0 THEN "-" ELSE "") \o ToString(Abs(n) \div 1000) \o "."
    \o (IF Abs(n) % 1000 < 10 THEN "00" ELSE IF Abs(n) % 1000 < 100 THEN "0" ELSE "")
    \o ToString(Abs(n) % 1000)

\* [[float(val) for val in center] for center in centers] (line 752)
CentersTree(centers) ==
    ListV([c \in 1..Len(centers) |->
             ListV([f \in 1..Len(centers[c]) |-> Float(MilliText(centers[c][f]))])])

\* lines 750-759: the result record; cluster_centers is kmeans.cluster_centers_
\* as fitted on X_scaled, and the record has no other key
ClusterResultTree(labels, n_clusters, X, env) ==
    DictV(<<"clusters", "cluster_centers", "cluster_summary", "inertia", "visualizations">>,
          <<ListV([i \in 1..Len(labels) |-> IntV(ToString(labels[i]))]),
            CentersTree(cluster_centers(X, labels, n_clusters)),
            DictV(<<>>, <<>>),
            Float(env.metric),
            DictV(<<"cluster_sizes">>, <<DictV(<<>>, <<>>)>>)>>)

clustering_analysis(df, n_clusters, features, env) ==
    LET df_clean == clean_dataset(df)
        names    == IF features.given THEN features.names ELSE NumericCols(df_clean)
    IN  IF \E f \in 1..Len(names) : ~HasCol(df_clean, names[f])
        THEN Failure("Error in clustering analysis", <<"clean">>)
        ELSE
        LET numeric_df == [f \in 1..Len(names) |-> Col(df_clean, names[f])]
            rows_in    == NRows(df_clean)
        IN  IF Len(numeric_df) = 0 \/ rows_in = 0
            THEN Failure("No numeric columns found for clustering", <<"clean">>)
            ELSE IF ClusterTooFewRows(rows_in, n_clusters)
            THEN Failure("Not enough data points for clusters", <<"clean">>)
            ELSE IF \E f \in 1..Len(numeric_df) : ~is_numeric_dtype(numeric_df[f])
            THEN Failure("Error in clustering analysis", <<"clean", "impute">>)
            ELSE
            LET rows   == ClusterUsableRows(numeric_df)
                steps1 == <<"clean", "impute", "mask">>
                info   == [NoInfo EXCEPT !.features_used = names, !.usable = Len(rows),
                                         !.rows_in = rows_in, !.k = n_clusters]
            IN  IF ClusterTooFewRows(Len(rows), n_clusters)
                THEN [Failure("After cleaning, not enough valid data points for clusters", steps1)
                        EXCEPT !.info = info]
                ELSE IF Len(rows) = 0
                THEN [Failure("Error in clustering analysis", steps1 \o <<"scale">>)
                        EXCEPT !.info = info]
                ELSE IF n_clusters < 1 \/ env.fault = "fit"
                THEN [Failure("Error in clustering analysis", steps1 \o <<"scale", "fit">>)
                        EXCEPT !.info = info]
                ELSE IF env.fault = "charts"
                THEN [Failure("Error in clustering analysis",
                              steps1 \o <<"scale", "fit", "summary", "charts">>)
                        EXCEPT !.info = info]
                ELSE LET labels == KMeansLabels(Len(rows), n_clusters, env)
                     IN  Success(steps1 \o <<"scale", "fit", "summary", "charts", "sanitize">>,
                                 [info EXCEPT !.clusters = labels],
                                 clean_for_json(ClusterResultTree(labels, n_clusters,
                                                                  ClusterData(numeric_df, rows),
                                                                  env)))

(***************************************************************************)
(* The other entry points, as far as the dispatcher needs them: which      *)
(* inputs make them return a result, return an error record, or raise.     *)
(* env.fault names the stage in which a library call raises; env.metric    *)
(* is the float the computed statistics evaluate to.                       *)
(***************************************************************************)
\* df.select_dtypes(include=['object']).columns.tolist()
ObjectCols(df) == SelectSeq(ColNames(df), LAMBDA c : ~is_numeric_dtype(Col(df, c)))

\* {name: tree} over a list of names
DictOver(names, tree) == DictV(names, [i \in 1..Len(names) |-> tree])

\* len(numeric_df.dropna()) (line 143): the rows of the numeric columns that
\* hold no missing cell in any of them
CompleteRows(df, names) ==
    Cardinality({i \in 1..NRows(df) :
                    \A c \in 1..Len(names) : NotNa(Col(df, names[c]).cells[i])})

\* nbins=min(30, int(np.sqrt(len(numeric_df.dropna())))) (line 143), the same
\* number for every column col of the numeric columns names
HistogramBins(df, names, col) ==
    IF ISqrt(CompleteRows(df, names)) > 30 THEN 30 ELSE ISqrt(CompleteRows(df, names))

\* lines 132-170: one histogram per numeric column, each carrying its nbins;
\* a chart whose construction raises is left out
DistributionCharts(df, names, env) ==
    IF env.fault = "charts" THEN DictV(<<>>, <<>>)
    ELSE DictV(names, [c \in 1..Len(names) |->
                         DictV(<<"nbins">>,
                               <<IntV(ToString(HistogramBins(df, names, names[c])))>>)])

\* descriptive_statistics (lines 109-221): no try around the function body;
\* only the chart constructions are guarded (lines 133-177, 200-216)
descriptive_statistics(df, columns, env) ==
    IF \E c \in 1..Len(columns) : ~HasCol(df, columns[c])
    THEN Raised("KeyError", <<"select">>)
    ELSE LET sub == IF columns = <<>> THEN df
                    ELSE [c \in 1..Len(columns) |-> Col(df, columns[c])]
             charts(names) == IF env.fault = "charts" THEN DictV(<<>>, <<>>)
                              ELSE DictOver(names, DictV(<<>>, <<>>))
         IN  IF env.fault = "stats"
             THEN Raised("describe", <<"select", "stats">>)
             ELSE Success(<<"select", "stats", "charts", "sanitize">>, NoInfo,
                    clean_for_json(
                      DictV(<<"numeric_stats", "distribution_charts", "categorical_stats",
                              "missing_values", "data_types", "categorical_charts">>,
                            <<DictOver(NumericCols(sub),
                                       DictV(<<"count", "mean", "std">>,
                                             <<Float("1.0"), Float(env.metric), NoneV>>)),
                              DistributionCharts(sub, NumericCols(sub), env),
                              DictOver(ObjectCols(sub),
                                       DictV(<<"unique_count", "most_frequent">>,
                                             <<IntV("1"), Str("x")>>)),
                              DictOver(ColNames(sub), IntV("0")),
                              DictOver(ColNames(sub), Str("dtype")),
                              charts(ObjectCols(sub))>>)))

CorrelationMethods == {"pearson", "kendall", "spearman"}

\* correlation_analysis (lines 223-282): no try at all
correlation_analysis(df, method, env) ==
    IF NumericCols(df) = <<>> \/ NRows(df) = 0
    THEN Failure("No numeric columns found for correlation analysis", <<>>)
    ELSE IF method \notin CorrelationMethods
    THEN Raised("ValueError", <<"corr">>)
    ELSE IF env.fault \in {"stats", "charts"}
    THEN Raised(env.fault, <<"corr", "charts">>)
    ELSE Success(<<"corr", "charts", "strong", "sanitize">>, NoInfo,
           clean_for_json(
             DictV(<<"correlation_matrix", "visualization", "strong_correlations">>,
                   <<DictOver(NumericCols(df), DictOver(NumericCols(df), Float(env.metric))),
                     DictV(<<>>, <<>>),
                     ListV(<<>>)>>)))

MinClassificationRows == 10

\* LabelEncoder().fit_transform(col.astype(str)) (lines 788-797): every cell,
\* a missing one too, gets the integer code of its text; a code is written
\* as a cell of kind "code" that carries the text it stands for
LabelEncode(cells) ==
    [i \in 1..Len(cells) |-> [k |-> "code", n |-> 0, s |-> AsStr(cells[i])]]

\* np.isfinite on a cell of the encoded data
ClsFinite(c) == c.k \in {"num", "code"}

\* lines 786-804 on one feature column: an object column is label-encoded and
\* has nothing left to fill; a numeric column gets its median for NaN
ClsFeatureColumn(col) ==
    IF is_numeric_dtype(col) THEN FillNa(col.cells, Median(col.cells))
    ELSE LabelEncode(col.cells)

\* lines 783, 793-797: the target, label-encoded when it is an object column
ClsTarget(col) == IF is_numeric_dtype(col) THEN col.cells ELSE LabelEncode(col.cells)

\* lines 806-809: the rows whose features and target are all finite
ClsUsableRows(X, y) ==
    KeptRows(Len(y), [i \in 1..Len(y) |->
                        /\ \A f \in 1..Len(X) : ClsFinite(X[f][i])
                        /\ ClsFinite(y[i])])

\* np.unique(y) on the usable rows, and the size of each class
ClsClasses(y, rows) == {y[rows[r]] : r \in 1..Len(rows)}

ClsClassSize(y, rows, cls) == Cardinality({r \in 1..Len(rows) : y[rows[r]] = cls})

\* line 811 with 9 in place of 10
ClsTooFewRows_nine(n) == n < MinClassificationRows - 1

\* line 811
ClsTooFewRows(n) == n < MinClassificationRows

\* line 815
ClsTooFewClasses(classes) == Cardinality(classes) < 2

\* lines 806-892 once X and y are encoded and imputed.  The stratified split
\* of line 819 raises when a class has one member or the test fifth is
\* smaller than the number of classes; the charts of 832-876 are not guarded
\* on their own, so a failing chart ends in the except of line 890.
ClsFit(selected, X, y, rows, env) ==
    IF ClsTooFewRows(Len(rows))
    THEN [Failure("Not enough valid data points for classification analysis",
                  <<"clean", "encode", "impute", "mask">>)
            EXCEPT !.info.features_used = selected, !.info.usable = Len(rows),
                   !.info.rows_in = Len(y)]
    ELSE IF ClsTooFewClasses(ClsClasses(y, rows))
    THEN [Failure("Target column must have at least 2 different classes",
                  <<"clean", "encode", "impute", "mask">>)
            EXCEPT !.info.features_used = selected, !.info.usable = Len(rows),
                   !.info.rows_in = Len(y)]
    ELSE IF \/ \E c \in ClsClasses(y, rows) : ClsClassSize(y, rows, c) < 2
            \/ Cardinality(ClsClasses(y, rows)) > (Len(rows) + 4) \div 5
    THEN [Failure("Error in classification analysis",
                  <<"clean", "encode", "impute", "mask", "split">>)
            EXCEPT !.info.features_used = selected, !.info.usable = Len(rows),
                   !.info.rows_in = Len(y)]
    ELSE IF env.fault = "fit"
    THEN [Failure("Error in classification analysis",
                  <<"clean", "encode", "impute", "mask", "split", "fit">>)
            EXCEPT !.info.features_used = selected, !.info.usable = Len(rows),
                   !.info.rows_in = Len(y)]
    ELSE IF env.fault = "charts"
    THEN [Failure("Error in classification analysis",
                  <<"clean", "encode", "impute", "mask", "split", "fit", "charts">>)
            EXCEPT !.info.features_used = selected, !.info.usable = Len(rows),
                   !.info.rows_in = Len(y),
                   !.info.fitted = [f \in 1..Len(X) |->
                                      [r \in 1..Len(rows) |-> X[f][rows[r]]]]]
    ELSE Success(<<"clean", "encode", "impute", "mask", "split", "fit", "charts", "sanitize">>,
                 [NoInfo EXCEPT !.features_used = selected, !.usable = Len(rows),
                                !.rows_in = Len(y),
                                !.fitted = [f \in 1..Len(X) |->
                                              [r \in 1..Len(rows) |-> X[f][rows[r]]]]],
                 clean_for_json(
                   DictV(<<"accuracy", "feature_importance", "classification_report",
                           "visualizations", "interpretation">>,
                         <<Float(env.metric),
                           DictOver(selected, Float(env.metric)),
                           DictV(<<"accuracy">>, <<Float(env.metric)>>),
                           DictV(<<"feature_importance", "confusion_matrix",
                                   "class_distribution">>,
                                 <<DictV(<<>>, <<>>), DictV(<<>>, <<>>), DictV(<<>>, <<>>)>>),
                           Str("interpretation")>>)))

\* lines 775-809: the features, encoded and imputed, and the rows kept
ClsPrepare(df_clean, target_column, selected, env) ==
    IF selected = <<>>
    THEN Failure("No feature columns found", <<"clean">>)
    ELSE IF \E f \in 1..Len(selected) : ~HasCol(df_clean, selected[f])
    THEN Failure("Error in classification analysis", <<"clean">>)
    ELSE ClsFit(selected,
                [f \in 1..Len(selected) |-> ClsFeatureColumn(Col(df_clean, selected[f]))],
                ClsTarget(Col(df_clean, target_column)),
                ClsUsableRows(
                    [f \in 1..Len(selected) |-> ClsFeatureColumn(Col(df_clean, selected[f]))],
                    ClsTarget(Col(df_clean, target_column))),
                env)

\* classification_analysis (lines 765-892): the whole body is in a try.
\* feature_columns <<>> is the omitted argument.
classification_analysis(df, target_column, feature_columns, env) ==
    IF ~HasCol(df, target_column)
    THEN Failure("Target column not found", <<>>)
    ELSE ClsPrepare(clean_dataset(df), target_column,
                    IF feature_columns = <<>>
                    THEN SelectSeq(ColNames(clean_dataset(df)), LAMBDA c : c # target_column)
                    ELSE feature_columns,
                    env)

\* the chart types create_visualization knows (lines 918-946)
ChartTypes == {"histogram", "scatter", "line", "bar", "box", "heatmap"}

\* create_visualization (lines 914-956): the whole body is in a try; column
\* is the column the chart is asked for, "" when the config names none
create_visualization(df, chart_type, column, env) ==
    IF chart_type \notin ChartTypes
    THEN Failure("Unsupported chart type", <<>>)
    ELSE IF (chart_type # "heatmap" /\ column # "" /\ ~HasCol(df, column)) \/ env.fault = "charts"
    THEN Failure("Error creating visualization", <<"charts">>)
    ELSE Success(<<"charts", "sanitize">>, NoInfo,
                 clean_for_json(DictV(<<"visualization">>, <<DictV(<<>>, <<>>)>>)))

(***************************************************************************)
(* _find_strong_correlations (lines 284-297).  A correlation matrix is     *)
(* [columns, val]: val[i][j] is a cell whose number counts 1/CorrScale; a  *)
(* rounded correlation counts thousandths.                                 *)
(***************************************************************************)
CorrScale == 10000

\* threshold=0.7 of line 285, in units of 1/CorrScale
StrongThreshold == 7000

\* round(x, 3): to the nearest thousandth, a tie to the even one
Round3(n) ==
    LET q == n \div 10
        r == n % 10
    IN  IF r < 5 THEN q
        ELSE IF r > 5 THEN q + 1
        ELSE IF q % 2 = 0 THEN q ELSE q + 1

\* line 290 with > in place of >=
IsStrong_strict(c) == c.k = "num" /\ Abs(c.n) > StrongThreshold

\* lines 289-290: abs(corr) >= threshold, False for NaN
IsStrong(c) == c.k = "num" /\ Abs(c.n) >= StrongThreshold

\* the loops of lines 287-296 from position (i, j) on
RECURSIVE FindStrongFrom(_, _, _)
FindStrongFrom(corr_matrix, i, j) ==
    IF i > Len(corr_matrix.columns) THEN <<>>
    ELSE IF j > Len(corr_matrix.columns) THEN FindStrongFrom(corr_matrix, i + 1, i + 2)
    ELSE (IF IsStrong(corr_matrix.val[i][j])
          THEN <<[feature1 |-> corr_matrix.columns[i],
                  feature2 |-> corr_matrix.columns[j],
                  correlation |-> Round3(corr_matrix.val[i][j].n)]>>
          ELSE <<>>)
         \o FindStrongFrom(corr_matrix, i, j + 1)

find_strong_correlations(corr_matrix) == FindStrongFrom(corr_matrix, 1, 2)

\* get_dataset_info (lines 92-107)
get_dataset_info(df) ==
    clean_for_json(
      DictV(<<"rows_count", "columns_count", "columns", "dtypes", "memory_usage",
              "missing_values", "numeric_columns", "categorical_columns">>,
            <<IntV(ToString(NRows(df))), IntV(ToString(Len(df))),
              ListV([j \in 1..Len(df) |-> Str(df[j].name)]),
              DictOver(ColNames(df), Str("dtype")),
              IntV("0"),
              DictV(ColNames(df),
                    [j \in 1..Len(df) |->
                        IntV(ToString(Len(df[j].cells) - NotNaCount(df[j].cells)))]),
              ListV([j \in 1..Len(NumericCols(df)) |-> Str(NumericCols(df)[j])]),
              ListV([j \in 1..Len(ObjectCols(df)) |-> Str(ObjectCols(df)[j])])>>))

\* row i of a table, as the tuple of its cells
RowOf(df, i) == [j \in 1..Len(df) |-> df[j].cells[i]]

\* lines 962-964: total cells, missing cells, rows that repeat an earlier row
QualityCounts(df) ==
    [total_cells    |-> NRows(df) * Len(df),
     missing_cells  |-> Cardinality({<<i, j>> \in (1..NRows(df)) \X (1..Len(df)) :
                                        ~NotNa(df[j].cells[i])}),
     duplicate_rows |-> NRows(df) - Cardinality({RowOf(df, i) : i \in 1..NRows(df)}),
     rows           |-> NRows(df)]

\* lines 967-969 with the two weights exchanged
quality_score_swapped(total_cells, missing_cells, duplicate_rows, rows) ==
    LET T == IF total_cells > 0 THEN total_cells ELSE 1
        m == IF total_cells > 0 THEN missing_cells ELSE 0
        R == IF rows > 0 THEN rows ELSE 1
        d == IF rows > 0 THEN duplicate_rows ELSE 0
        num == 100 * T * R - 30 * m * R - 50 * d * T
    IN  RoundDiv(10 * (IF num > 0 THEN num ELSE 0), T * R)

\* lines 967-969 and the round(quality_score, 1) of line 998, in tenths: each
\* ratio is 0 when its denominator is 0
quality_score(total_cells, missing_cells, duplicate_rows, rows) ==
    LET T == IF total_cells > 0 THEN total_cells ELSE 1
        m == IF total_cells > 0 THEN missing_cells ELSE 0
        R == IF rows > 0 THEN rows ELSE 1
        d == IF rows > 0 THEN duplicate_rows ELSE 0
        num == 100 * T * R - 50 * m * R - 30 * d * T
    IN  RoundDiv(10 * (IF num > 0 THEN num ELSE 0), T * R)

\* lines 977-981: the issues raised by the two ratios
QualityIssues(c) ==
    (IF c.total_cells > 0 /\ 10 * c.missing_cells > c.total_cells
     THEN <<"High missing data rate">> ELSE <<>>)
    \o (IF c.rows > 0 /\ 20 * c.duplicate_rows > c.rows
        THEN <<"Duplicate rows detected">> ELSE <<>>)

\* the unrounded quality_score of line 969 as the fraction num / den
quality_score_exact(c) ==
    LET T == IF c.total_cells > 0 THEN c.total_cells ELSE 1
        m == IF c.total_cells > 0 THEN c.missing_cells ELSE 0
        R == IF c.rows > 0 THEN c.rows ELSE 1
        d == IF c.rows > 0 THEN c.duplicate_rows ELSE 0
        n == 100 * T * R - 50 * m * R - 30 * d * T
    IN  [num |-> IF n > 0 THEN n ELSE 0, den |-> T * R]

\* quality_score < t
ScoreBelow(score, t) == score.num < t * score.den

\* four times Series.quantile(q / 4) of the filled cells, by linear
\* interpolation between the two nearest of the sorted values
Quantile4(cells, q) ==
    LET n    == NotNaCount(cells)
        lo   == (q * (n - 1)) \div 4 + 1
        frac == (q * (n - 1)) % 4
    IN  KthSmallest(cells, lo).n * (4 - frac)
        + (IF frac > 0 THEN KthSmallest(cells, lo + 1).n * frac ELSE 0)

\* lines 986-991: the cells below Q1 - 1.5*IQR or above Q3 + 1.5*IQR
OutlierCount(cells) ==
    LET q1  == Quantile4(cells, 1)
        q3  == Quantile4(cells, 3)
        iqr == q3 - q1
    IN  Cardinality({i \in 1..Len(cells) :
                        /\ cells[i].k = "num"
                        /\ \/ 8 * cells[i].n < 2 * q1 - 3 * iqr
                           \/ 8 * cells[i].n > 2 * q3 + 3 * iqr})

\* lines 984-993: the numeric columns with a positive IQR and more than 5% of
\* the rows outside the fences
OutlierColumns(df) ==
    SelectSeq(NumericCols(df),
              LAMBDA c : /\ NotNaCount(Col(df, c).cells) > 0
                         /\ Quantile4(Col(df, c).cells, 3) > Quantile4(Col(df, c).cells, 1)
                         /\ 20 * OutlierCount(Col(df, c).cells) > NRows(df))

\* the characters of a column name as str.lower() gives them; a name of one
\* character is that character
Chars(name) ==
    IF name = "duplicates"
    THEN <<"d", "u", "p", "l", "i", "c", "a", "t", "e", "s">>
    ELSE IF name = "missing data"
    THEN <<"m", "i", "s", "s", "i", "n", "g", " ", "d", "a", "t", "a">>
    ELSE <<name>>

\* the lower-cased letters of the three issue texts of lines 978, 980 and 995
\* (the numbers formatted into the first two add digits and punctuation)
MissingIssueChars ==
    <<"h", "i", "g", "h", " ", "m", "i", "s", "s", "i", "n", "g", " ", "d",
      "a", "t", "a", " ", "r", "a", "t", "e", ":", " ">>

DuplicateIssueChars ==
    <<"d", "u", "p", "l", "i", "c", "a", "t", "e", " ", "r", "o", "w", "s",
      " ", "d", "e", "t", "e", "c", "t", "e", "d", ":", " ">>

OutlierIssuePrefix ==
    <<"p", "o", "t", "e", "n", "t", "i", "a", "l", " ", "o", "u", "t", "l",
      "i", "e", "r", "s", " ", "i", "n", ":", " ">>

\* ', '.join(names) as characters
RECURSIVE JoinChars(_)
JoinChars(names) ==
    IF names = <<>> THEN <<>>
    ELSE IF Len(names) = 1 THEN Chars(names[1])
    ELSE Chars(names[1]) \o <<",", " ">> \o JoinChars(Tail(names))

\* ', '.join(names) as a text
RECURSIVE JoinText(_)
JoinText(names) ==
    IF names = <<>> THEN ""
    ELSE IF Len(names) = 1 THEN names[1]
    ELSE names[1] \o ", " \o JoinText(Tail(names))

\* lines 976-996: the issues, each with its text and the characters of
\* issue.lower(); the outlier issue names up to 3 of the columns
IssueList(c, outlier_columns) ==
    (IF QualityIssues(c) # <<>> /\ QualityIssues(c)[1] = "High missing data rate"
     THEN <<[text |-> "High missing data rate", chars |-> MissingIssueChars]>> ELSE <<>>)
    \o (IF QualityIssues(c) # <<>>
           /\ QualityIssues(c)[Len(QualityIssues(c))] = "Duplicate rows detected"
        THEN <<[text |-> "Duplicate rows detected", chars |-> DuplicateIssueChars]>> ELSE <<>>)
    \o (IF outlier_columns # <<>>
        THEN <<[text  |-> "Potential outliers in: "
                            \o JoinText(SubSeq(outlier_columns, 1,
                                   IF Len(outlier_columns) < 3 THEN Len(outlier_columns) ELSE 3)),
                chars |-> OutlierIssuePrefix
                            \o JoinChars(SubSeq(outlier_columns, 1,
                                   IF Len(outlier_columns) < 3 THEN Len(outlier_columns) ELSE 3))]>>
        ELSE <<>>)

\* pat in text
Contains(text, pat) ==
    \E i \in 0..(Len(text) - Len(pat)) : SubSeq(text, i + 1, i + Len(pat)) = pat

\* any(pat in issue.lower() for issue in issues)
AnyIssueContains(issues, pat) == \E i \in 1..Len(issues) : Contains(issues[i].chars, pat)

\* _get_data_quality_recommendations (lines 1021-1038)
get_data_quality_recommendations(quality_score_, issues) ==
    (IF ScoreBelow(quality_score_, 70)
     THEN <<"Consider data cleaning and preprocessing">> ELSE <<>>)
    \o (IF ScoreBelow(quality_score_, 50)
        THEN <<"Significant data quality issues detected - review data sources">> ELSE <<>>)
    \o (IF AnyIssueContains(issues, <<"m", "i", "s", "s", "i", "n", "g", " ", "d", "a", "t", "a">>)
        THEN <<"Handle missing values through imputation or removal">> ELSE <<>>)
    \o (IF AnyIssueContains(issues, <<"d", "u", "p", "l", "i", "c", "a", "t", "e">>)
        THEN <<"Remove or investigate duplicate records">> ELSE <<>>)
    \o (IF AnyIssueContains(issues, <<"o", "u", "t", "l", "i", "e", "r">>)
        THEN <<"Investigate and handle outliers appropriately">> ELSE <<>>)

\* lines 976-1009 once the counts and the outlier columns are known
QualityReport(c, outlier_columns) ==
    [error  |-> FALSE,
     score  |-> quality_score(c.total_cells, c.missing_cells, c.duplicate_rows, c.rows),
     counts |-> c,
     issues |-> [i \in 1..Len(IssueList(c, outlier_columns)) |->
                    IssueList(c, outlier_columns)[i].text],
     recommendations |->
         get_data_quality_recommendations(quality_score_exact(c),
                                          IssueList(c, outlier_columns))]

\* what _analyze_data_quality works out; score counts tenths.  A failure in
\* any step ends in the except of line 1013: score 0 and an error.
DataQuality(df, env) ==
    IF env.fault = "stats"
    THEN [error |-> TRUE, score |-> 0, counts |-> QualityCounts(<<>>), issues |-> <<>>,
          recommendations |-> <<>>]
    ELSE QualityReport(QualityCounts(df), OutlierColumns(df))

\* a number of tenths as a decimal text
TenthsText(n) == ToString(n \div 10) \o "." \o ToString(n % 10)

\* the result record of lines 997-1018 for what DataQuality worked out
QualityTree(q) ==
    IF q.error
    THEN DictV(<<"data_quality_score", "error">>,
               <<IntV("0"), Str("Error analyzing data quality")>>)
    ELSE DictV(<<"data_quality_score", "duplicate_rows", "total_cells", "missing_cells",
                 "issues", "recommendations">>,
               <<Float(TenthsText(q.score)),
                 IntV(ToString(q.counts.duplicate_rows)),
                 IntV(ToString(q.counts.total_cells)),
                 IntV(ToString(q.counts.missing_cells)),
                 ListV([i \in 1..Len(q.issues) |-> Str(q.issues[i])]),
                 ListV([i \in 1..Len(q.recommendations) |-> Str(q.recommendations[i])])>>)

\* _analyze_data_quality (lines 958-1019): a try that answers an error record
analyze_data_quality(df, env) == clean_for_json(QualityTree(DataQuality(df, env)))

\* _generate_ai_insights (lines 1040-1140): a list of text records, not sanitized
generate_ai_insights(df, env) ==
    IF env.fault = "stats"
    THEN ListV(<<DictV(<<"type", "title">>, <<Str("error"), Str("Analysis Error")>>)>>)
    ELSE ListV(IF NRows(df) < 100
               THEN <<DictV(<<"type", "title">>, <<Str("warning"), Str("Small Dataset")>>)>>
               ELSE <<>>)

\* Series.nunique(): the distinct values of the filled cells
NUnique(cells) == Cardinality({cells[i] : i \in {i \in 1..Len(cells) : NotNa(cells[i])}})

\* the concatenation of a sequence of sequences
RECURSIVE Flatten(_)
Flatten(seqs) == IF seqs = <<>> THEN <<>> ELSE seqs[1] \o Flatten(Tail(seqs))

\* the first n items of a sequence: xs[:n]
FirstN(xs, n) == SubSeq(xs, 1, IF Len(xs) < n THEN Len(xs) ELSE n)

\* one recommendation record
Recommendation(type, columns, priority) ==
    DictV(<<"type", "columns", "priority">>,
          <<Str(type), ListV([c \in 1..Len(columns) |-> Str(columns[c])]), Str(priority)>>)

\* lines 1151-1158: a histogram for each of the first 5 numeric columns
RecHistograms(num) ==
    [j \in 1..Len(FirstN(num, 5)) |->
        Recommendation("histogram", <<num[j]>>, IF j <= 3 THEN "high" ELSE "medium")]

\* lines 1161-1169: a bar chart for each of the first 3 text columns of at
\* most 20 distinct values
RecBars(df, cat) ==
    LET low == SelectSeq(FirstN(cat, 3), LAMBDA c : NUnique(Col(df, c).cells) <= 20)
    IN  [j \in 1..Len(low) |-> Recommendation("bar", <<low[j]>>, "high")]

\* lines 1172-1179
RecHeatmap(num) ==
    IF Len(num) >= 3 THEN <<Recommendation("heatmap", num, "high")>> ELSE <<>>

\* lines 1182-1191: col1 among the first 3, col2 after it among the first 4
RecScatters(num) ==
    IF Len(num) < 2 THEN <<>>
    ELSE Flatten([i \in 1..Len(FirstN(num, 3)) |->
                    [d \in 1..(Len(FirstN(num, 4)) - i) |->
                        Recommendation("scatter", <<num[i], num[i + d]>>, "medium")]])

\* lines 1194-1205: the first 2 numeric by the first 2 text columns of at most
\* 10 distinct values
RecBoxes(df, num, cat) ==
    LET low == SelectSeq(FirstN(cat, 2), LAMBDA c : NUnique(Col(df, c).cells) <= 10)
    IN  Flatten([i \in 1..Len(FirstN(num, 2)) |->
                   [j \in 1..Len(low) |-> Recommendation("box", <<num[i], low[j]>>, "medium")]])

\* the list with no limit on its length
RecLimit_none(recs) == recs

\* line 1207: recommendations[:10]
RecLimit(recs) == FirstN(recs, 10)

\* _get_visualization_recommendations (lines 1142-1215): text records, not
\* sanitized.  env.fault = "stats" stands for a nunique that raises (a text
\* column holding unhashable cells, as nested JSON gives): the except of line
\* 1209 returns the one error record.
get_visualization_recommendations(df, env) ==
    IF env.fault = "stats" /\ ObjectCols(df) # <<>>
    THEN ListV(<<Recommendation("error", <<>>, "low")>>)
    ELSE ListV(RecLimit(RecHistograms(NumericCols(df))
                        \o RecBars(df, ObjectCols(df))
                        \o RecHeatmap(NumericCols(df))
                        \o RecScatters(NumericCols(df))
                        \o RecBoxes(df, NumericCols(df), ObjectCols(df))))

(***************************************************************************)
(* _interpret_regression_results (services.py 894-912).  r2_score is a     *)
(* cell: a number in hundredths or NaN.  feature_importance is the dict    *)
(* of coefficients as a sequence of [name, coef] items in insertion order. *)
(***************************************************************************)
\* r2_score >= t on floats: false for NaN
R2AtLeast(r2_score, t) == r2_score.k = "num" /\ r2_score.n >= t

\* lines 899-906 with > in place of >=
RegressionLabel_strict(r2_score) ==
    IF r2_score.k = "num" /\ r2_score.n > 80
    THEN "Excellent model performance with high explanatory power."
    ELSE IF r2_score.k = "num" /\ r2_score.n > 60
    THEN "Good model performance with moderate explanatory power."
    ELSE IF r2_score.k = "num" /\ r2_score.n > 40
    THEN "Fair model performance. Consider feature engineering."
    ELSE "Poor model performance. Review features and data quality."

\* lines 899-906
RegressionLabel(r2_score) ==
    IF R2AtLeast(r2_score, 80)
    THEN "Excellent model performance with high explanatory power."
    ELSE IF R2AtLeast(r2_score, 60)
    THEN "Good model performance with moderate explanatory power."
    ELSE IF R2AtLeast(r2_score, 40)
    THEN "Fair model performance. Consider feature engineering."
    ELSE "Poor model performance. Review features and data quality."

\* sorted(items, key=lambda x: abs(x[1]), reverse=True): a stable sort, items
\* of equal key keep their order
SortedByAbsCoef(items) ==
    LET before(j, i) == \/ Abs(items[j].coef) > Abs(items[i].coef)
                        \/ Abs(items[j].coef) = Abs(items[i].coef) /\ j < i
        rank(i) == Cardinality({j \in 1..Len(items) : before(j, i)}) + 1
    IN  [p \in 1..Len(items) |-> items[CHOOSE i \in 1..Len(items) : rank(i) = p]]

\* ', '.join(names)
RECURSIVE JoinNames(_)
JoinNames(names) ==
    IF names = <<>> THEN ""
    ELSE IF Len(names) = 1 THEN names[1]
    ELSE names[1] \o ", " \o JoinNames(Tail(names))

\* line 909: the first three items of the sorted list
TopFeatures(feature_importance) ==
    SubSeq(SortedByAbsCoef(feature_importance), 1,
           IF Len(feature_importance) < 3 THEN Len(feature_importance) ELSE 3)

\* lines 896-912: the two sentences joined by a blank
interpret_regression_results(r2_score, feature_importance) ==
    RegressionLabel(r2_score) \o " " \o "Most important features: "
    \o JoinNames([i \in 1..Len(TopFeatures(feature_importance)) |->
                    TopFeatures(feature_importance)[i].name])

(***************************************************************************)
(* Tables as objects.  A pandas DataFrame is passed by reference: heap is  *)
(* the sequence of the DataFrame objects alive during a call, a ref an     *)
(* index into it.  Each operator below follows one pipeline function and   *)
(* returns the heap it leaves, with every assignment into a DataFrame      *)
(* (df[col] = ...) written to the object the code assigns into.            *)
(***************************************************************************)
\* no copy: the new name refers to the same object
DfCopy_alias(heap, ref) == [heap |-> heap, ref |-> ref]

\* df.copy(): a new object holding the same columns
DfCopy(heap, ref) == [heap |-> Append(heap, heap[ref]), ref |-> Len(heap) + 1]

\* _clean_dataset (lines 59-90): df_cleaned = df.copy() (line 62), then
\* df_cleaned[col] = numeric_series for each parsed column (line 88)
clean_dataset_on(heap, ref) ==
    [heap |-> [DfCopy(heap, ref).heap
                 EXCEPT ![DfCopy(heap, ref).ref] = clean_dataset(heap[ref])],
     ref  |-> DfCopy(heap, ref).ref]

\* lines 334-339 of linear_regression_analysis:
\* df_clean[col] = pd.to_numeric(df_clean[col], errors='coerce') for the
\* requested features that are not numeric, once the validations passed
RegCoerceWrite(heap, ref, target_column, feature_columns) ==
    IF /\ feature_columns # <<>>
       /\ is_numeric_dtype(Col(heap[ref], target_column))
       /\ \A f \in 1..Len(feature_columns) : HasCol(heap[ref], feature_columns[f])
    THEN [heap EXCEPT ![ref] =
            [j \in 1..Len(heap[ref]) |->
                IF /\ \E f \in 1..Len(feature_columns) : feature_columns[f] = heap[ref][j].name
                   /\ ~is_numeric_dtype(heap[ref][j])
                THEN CoerceColumn(heap[ref][j]) ELSE heap[ref][j]]]
    ELSE heap

\* linear_regression_analysis on the object ref: df_clean is the object
\* _clean_dataset returns (line 313); X and y are copies (lines 342-343)
regression_on(heap, ref, target_column, feature_columns, env) ==
    [heap   |-> IF target_column = "" \/ ~HasCol(heap[ref], target_column) THEN heap
                ELSE RegCoerceWrite(clean_dataset_on(heap, ref).heap,
                                    clean_dataset_on(heap, ref).ref,
                                    target_column, feature_columns),
     result |-> linear_regression_analysis(heap[ref], target_column, feature_columns, env)]

\* clustering_analysis on the object ref: df_clean from _clean_dataset (line
\* 621); X = numeric_df.copy() (636) and result_df = X.copy() (657) take the
\* later assignments
clustering_on(heap, ref, n_clusters, features, env) ==
    [heap   |-> clean_dataset_on(heap, ref).heap,
     result |-> clustering_analysis(heap[ref], n_clusters, features, env)]

\* lines 783-803 of classification_analysis: X = df_clean[...].copy(), then
\* X[col] = ... for every encoded or imputed feature column
ClsEncodeWrite(heap, ref, names) ==
    IF \A f \in 1..Len(names) : HasCol(heap[ref], names[f])
    THEN [DfCopy(heap, ref).heap EXCEPT ![DfCopy(heap, ref).ref] =
            [j \in 1..Len(heap[ref]) |->
                IF \E f \in 1..Len(names) : names[f] = heap[ref][j].name
                THEN Column(heap[ref][j].name, "number", ClsFeatureColumn(heap[ref][j]))
                ELSE heap[ref][j]]]
    ELSE heap

\* classification_analysis on the object ref
classification_on(heap, ref, target_column, feature_columns, env) ==
    [heap   |-> IF ~HasCol(heap[ref], target_column) THEN heap
                ELSE ClsEncodeWrite(clean_dataset_on(heap, ref).heap,
                                    clean_dataset_on(heap, ref).ref, feature_columns),
     result |-> classification_analysis(heap[ref], target_column, feature_columns, env)]

\* descriptive_statistics, correlation_analysis, get_dataset_info,
\* _analyze_data_quality, _generate_ai_insights and
\* _get_visualization_recommendations assign into no DataFrame: df[columns],
\* select_dtypes, dropna and corr each return a new object
ReadOnly(heap, result) == [heap |-> heap, result |-> result]

descriptive_on(heap, ref, columns, env) ==
    ReadOnly(heap, descriptive_statistics(heap[ref], columns, env))

correlation_on(heap, ref, method, env) ==
    ReadOnly(heap, correlation_analysis(heap[ref], method, env))

\* the six sub-analyses of quick_analysis (views.py 191-198) one after the
\* other on the object df_clean
QuickSubAnalyses(heap, ref, env) ==
    [heap   |-> ReadOnly(correlation_on(descriptive_on(heap, ref, <<>>, env).heap,
                                        ref, "pearson", env).heap, <<>>).heap,
     result |-> <<descriptive_on(heap, ref, <<>>, env).result.outcome,
                  correlation_on(descriptive_on(heap, ref, <<>>, env).heap,
                                 ref, "pearson", env).result.outcome>>]

\* quick_analysis on the object read from the file: df_clean =
\* _clean_dataset(df) (views.py 188), then the sub-analyses; passed is the
\* table df_clean holds before them, left the one it holds after them
quick_on(heap, ref, env) ==
    [heap   |-> QuickSubAnalyses(clean_dataset_on(heap, ref).heap,
                                 clean_dataset_on(heap, ref).ref, env).heap,
     result |-> [passed |-> clean_dataset_on(heap, ref).heap[clean_dataset_on(heap, ref).ref],
                 left   |-> QuickSubAnalyses(clean_dataset_on(heap, ref).heap,
                                             clean_dataset_on(heap, ref).ref, env)
                               .heap[clean_dataset_on(heap, ref).ref],
                 outcomes |-> QuickSubAnalyses(clean_dataset_on(heap, ref).heap,
                                               clean_dataset_on(heap, ref).ref, env).result]]

(***************************************************************************)
(* The dispatcher (views.py, AnalysisViewSet).  A request names a dataset  *)
(* by position (0 stands for an id that is no UUID), an analysis type and  *)
(* the parameters; parameters the request leaves out take the defaults of  *)
(* the parameters.get calls.                                               *)
(***************************************************************************)
\* models.py, Analysis.ANALYSIS_TYPES: what AnalysisRequestSerializer accepts
ANALYSIS_TYPES ==
    {"descriptive", "correlation", "regression", "clustering", "classification",
     "prediction", "visualization", "quick_analysis"}

DefaultParams ==
    [columns |-> <<>>, method |-> "pearson", target_column |-> "", feature_columns |-> <<>>,
     n_clusters |-> 3, features |-> [given |-> FALSE, names |-> <<>>],
     chart_type |-> "histogram", column |-> ""]

HttpResponse(status, body) == [status |-> status, body |-> body]

Call(fn, res) == [fn |-> fn, outcome |-> res.outcome]

\* read_dataset (services.py 36-57): the parsed file, cleaned, or ValueError
read_dataset(dataset) ==
    IF dataset.readable
    THEN [outcome |-> "success", df |-> clean_dataset(dataset.table)]
    ELSE [outcome |-> "raised", df |-> <<>>]

\* views.py 129-156: the branch taken for the analysis type.  calls lists the
\* entry points called, in order, with the way each one ended.
run_analysis(df, analysis_type, parameters, env) ==
    LET one(fn, r) == [outcome |-> r.outcome, result |-> r.result, calls |-> <<Call(fn, r)>>]
    IN  CASE analysis_type = "descriptive" ->
                one("descriptive_statistics",
                    descriptive_statistics(df, parameters.columns, env))
          [] analysis_type = "correlation" ->
                one("correlation_analysis", correlation_analysis(df, parameters.method, env))
          [] analysis_type = "regression" ->
                one("linear_regression_analysis",
                    linear_regression_analysis(df, parameters.target_column,
                                               parameters.feature_columns, env))
          [] analysis_type = "clustering" ->
                one("clustering_analysis",
                    clustering_analysis(df, parameters.n_clusters, parameters.features, env))
          [] analysis_type = "classification" ->
                one("classification_analysis",
                    classification_analysis(df, parameters.target_column,
                                            parameters.feature_columns, env))
          [] analysis_type = "quick_analysis" ->
                LET d == descriptive_statistics(df, <<>>, env)
                    c == correlation_analysis(df, "pearson", env)
                IN  IF d.outcome = "raised"
                    THEN [outcome |-> "raised", result |-> NoneV,
                          calls |-> <<Call("descriptive_statistics", d)>>]
                    ELSE IF c.outcome = "raised"
                    THEN [outcome |-> "raised", result |-> NoneV,
                          calls |-> <<Call("descriptive_statistics", d),
                                      Call("correlation_analysis", c)>>]
                    ELSE [outcome |-> "success",
                          result |-> DictV(<<"descriptive", "correlation", "dataset_info">>,
                                           <<d.result, c.result, get_dataset_info(df)>>),
                          calls |-> <<Call("descriptive_statistics", d),
                                      Call("correlation_analysis", c)>>]
          [] analysis_type = "visualization" ->
                one("create_visualization",
                    create_visualization(df, parameters.chart_type, parameters.column, env))
          [] OTHER ->
                [outcome |-> "unsupported", result |-> NoneV, calls |-> <<>>]

\* views.py 159-169 with the sanitizer call of line 159 left out
clean_and_store_raw(request, results) ==
    [analysis |-> [dataset |-> request.dataset_id, analysis_type |-> request.analysis_type,
                   parameters |-> request.parameters, results |-> results],
     steps |-> <<"store">>]

\* views.py 159-169: sanitize the results, then create the Analysis row
clean_and_store(request, results) ==
    [analysis |-> [dataset |-> request.dataset_id, analysis_type |-> request.analysis_type,
                   parameters |-> request.parameters, results |-> clean_for_json(results)],
     steps |-> <<"sanitize", "store">>]

Handled(handler, request, env, calls, steps, stored, resp) ==
    [response |-> resp, stored |-> stored,
     trace |-> [handler |-> handler, request |-> request, env |-> env,
                calls |-> calls, steps |-> steps]]

\* views.py 155-177: what create does with the outcome r of the dispatch
create_finish(request, env, r) ==
    IF r.outcome = "unsupported"
    THEN Handled("create", request, env, r.calls, <<"validate", "get", "read", "dispatch">>,
                 <<>>, HttpResponse(400, ErrorTree("Unsupported analysis type")))
    ELSE IF r.outcome = "raised"
    THEN Handled("create", request, env, r.calls, <<"validate", "get", "read", "dispatch">>,
                 <<>>, HttpResponse(500, ErrorTree("exception")))
    ELSE Handled("create", request, env, r.calls,
                 <<"validate", "get", "read", "dispatch">>
                    \o clean_and_store(request, r.result).steps \o <<"respond">>,
                 <<clean_and_store(request, r.result).analysis>>,
                 HttpResponse(201,
                    DictV(<<"analysis_type", "results">>,
                          <<Str(request.analysis_type),
                            clean_and_store(request, r.result).analysis.results>>)))

\* views.py 123-156: what create does with the outcome rd of read_dataset
create_loaded(request, env, rd) ==
    IF rd.outcome = "raised"
    THEN Handled("create", request, env, <<>>, <<"validate", "get", "read">>, <<>>,
                 HttpResponse(500, ErrorTree("Error reading file")))
    ELSE create_finish(request, env,
                       run_analysis(rd.df, request.analysis_type, request.parameters, env))

\* AnalysisViewSet.create (views.py 112-177)
create(dsets, request, env) ==
    IF request.analysis_type \notin ANALYSIS_TYPES \/ request.dataset_id = 0
    THEN Handled("create", request, env, <<>>, <<"validate">>, <<>>,
                 HttpResponse(400, DictV(<<"errors">>, <<Str("invalid")>>)))
    ELSE IF request.dataset_id \notin 1..Len(dsets)
    THEN Handled("create", request, env, <<>>, <<"validate", "get">>, <<>>,
                 HttpResponse(404, ErrorTree("Dataset not found")))
    ELSE create_loaded(request, env, read_dataset(dsets[request.dataset_id]))

\* AnalysisViewSet.quick_analysis (views.py 179-208)
quick_analysis(dsets, request, env) ==
    LET done(calls, steps, resp) ==
            Handled("quick_analysis", request, env, calls, steps, <<>>, resp)
    IN  IF request.dataset_id = 0
        THEN done(<<>>, <<"get">>, HttpResponse(500, ErrorTree("exception")))
        ELSE IF request.dataset_id \notin 1..Len(dsets)
        THEN done(<<>>, <<"get">>, HttpResponse(404, ErrorTree("Dataset not found")))
        ELSE
        LET rd == read_dataset(dsets[request.dataset_id])
        IN  IF rd.outcome = "raised"
            THEN done(<<>>, <<"get", "read">>,
                      HttpResponse(500, ErrorTree("Error reading file")))
            ELSE
            LET df_clean == clean_dataset(rd.df)
                d == descriptive_statistics(df_clean, <<>>, env)
                c == correlation_analysis(df_clean, "pearson", env)
                steps1 == <<"get", "read", "clean", "dispatch">>
            IN  IF d.outcome = "raised"
                THEN done(<<Call("descriptive_statistics", d)>>, steps1,
                          HttpResponse(500, ErrorTree("exception")))
                ELSE IF c.outcome = "raised"
                THEN done(<<Call("descriptive_statistics", d), Call("correlation_analysis", c)>>,
                          steps1, HttpResponse(500, ErrorTree("exception")))
                ELSE done(<<Call("descriptive_statistics", d), Call("correlation_analysis", c)>>,
                          steps1 \o <<"sanitize", "respond">>,
                          HttpResponse(200,
                            clean_for_json(
                              DictV(<<"descriptive", "correlation", "dataset_info",
                                      "data_quality", "ai_insights",
                                      "visualization_recommendations">>,
                                    <<d.result, c.result, get_dataset_info(df_clean),
                                      analyze_data_quality(df_clean, env),
                                      generate_ai_insights(df_clean, env),
                                      get_visualization_recommendations(df_clean, env)>>))))

(***************************************************************************)
(* The value every component's variables keep in a specification that      *)
(* does not exercise the component.                                        *)
(***************************************************************************)
SanIdle ==
    /\ sanIn = NoneV
    /\ sanOut = NoneV
    /\ sanPc = "idle"

ClIdle ==
    /\ clIn = <<>>
    /\ clOnce = <<>>
    /\ clTwice = <<>>
    /\ clPc = "idle"

NoRequest == [target |-> "", features |-> <<>>]

RgIdle ==
    /\ rgDf = <<>>
    /\ rgReq = NoRequest
    /\ rgRes = Failure("", <<>>)
    /\ rgPc = "idle"

NoClusterRequest == [n_clusters |-> 0, features |-> [given |-> FALSE, names |-> <<>>]]

KmIdle ==
    /\ kmDf = <<>>
    /\ kmReq = NoClusterRequest
    /\ kmRes = Failure("", <<>>)
    /\ kmPc = "idle"

CallIdle ==
    /\ callArgs = <<>>
    /\ callRes = <<>>
    /\ callPc = "idle"

NoTrace ==
    [handler |-> "", request |-> [dataset_id |-> 0, analysis_type |-> "",
                                  parameters |-> DefaultParams],
     env |-> [fault |-> "none", metric |-> "0.5", stride |-> 1, shift |-> 0],
     calls |-> <<>>, steps |-> <<>>]

DspIdle ==
    /\ datasets = <<>>
    /\ analyses = <<>>
    /\ response = HttpResponse(0, NoneV)
    /\ trace = NoTrace

(***************************************************************************)
(* Sanitizer specification: one call of clean_for_json on any input.       *)
(***************************************************************************)
SanInit ==
    /\ \E sh \in Shapes : \E leaf \in [1..SlotCount(sh) -> TreeScalars] :
          sanIn = Fill(sh, leaf, 0)
    /\ sanOut = NoneV
    /\ sanPc = "start"
    /\ ClIdle /\ RgIdle /\ KmIdle /\ DspIdle /\ CallIdle

Sanitize ==
    /\ sanPc = "start"
    /\ sanOut' = clean_for_json(sanIn)
    /\ sanPc' = "cleaned"
    /\ UNCHANGED <<sanIn, clVars, rgVars, kmVars, dspVars, callVars>>

SanNext == Sanitize

SpecSanitize == SanInit /\ [][SanNext]_vars

RECURSIVE HasNonFinite(_)
HasNonFinite(d) ==
    \/ IsNonFiniteFloat(d)
    \/ \E i \in 1..Len(d.items) : HasNonFinite(d.items[i])

\* y has the shape of x, with every non-finite float of x replaced by None
\* and no non-finite float anywhere.
RECURSIVE SanitizedImage(_, _)
SanitizedImage(x, y) ==
    IF x.kind \in {"dict", "list"}
    THEN /\ y.kind = x.kind
         /\ y.keys = x.keys
         /\ Len(y.items) = Len(x.items)
         /\ \A i \in 1..Len(x.items) : SanitizedImage(x.items[i], y.items[i])
    ELSE /\ y.kind \notin {"dict", "list"}
         /\ ~IsNonFiniteFloat(y)
         /\ (IsNonFiniteFloat(x) => y = NoneV)

\* C1: clean_for_json returns a structure of the same shape as its input (same
\* map keys, same sequence lengths and order) that holds no NaN or +/-infinity
\* float: each such scalar, at any depth, has become None.
C1_SanitizerTotality ==
    sanPc = "cleaned" =>
        /\ SanitizedImage(sanIn, sanOut)
        /\ ~HasNonFinite(sanOut)

\* a cleaned input that held a non-finite float two levels down
C1_Witness ==
    /\ sanPc = "cleaned"
    /\ sanIn.kind = "list"
    /\ \E i \in 1..Len(sanIn.items) :
          /\ sanIn.items[i].kind = "dict"
          /\ \E j \in 1..Len(sanIn.items[i].items) :
                /\ sanIn.items[i].items[j] = Float("-inf")
                /\ sanOut.items[i].items[j] = NoneV

\* C16: clean_for_json is idempotent: sanitizing what it returned, as the
\* dispatcher does with a pipeline result, gives the same structure again.
C16_SanitizerIdempotent ==
    sanPc = "cleaned" => clean_for_json(sanOut) = sanOut

\* an input with an infinity and a NaN, which the first call changed
C16_Witness ==
    /\ sanPc = "cleaned"
    /\ sanIn.kind = "list"
    /\ \E i \in 1..Len(sanIn.items) : sanIn.items[i] = Float("inf")
    /\ \E i \in 1..Len(sanIn.items) : sanIn.items[i] = Float("nan")
    /\ sanOut # sanIn
    /\ clean_for_json(sanOut) = sanOut

\* y has the shape of x and every scalar of x is unchanged in y, except the
\* non-finite floats and, when na, the pandas missing markers
RECURSIVE ScalarsKept(_, _, _)
ScalarsKept(x, y, na) ==
    IF x.kind \in {"dict", "list"}
    THEN /\ y.kind = x.kind
         /\ y.keys = x.keys
         /\ Len(y.items) = Len(x.items)
         /\ \A i \in 1..Len(x.items) : ScalarsKept(x.items[i], y.items[i], na)
    ELSE \/ y = x
         \/ x.kind = "float" /\ x.val \in {"nan", "inf", "-inf"}
         \/ na /\ x.kind \in {"none", "nat"} /\ y = NoneV

\* C17 as stated: clean_for_json changes no scalar other than float NaN and
\* +/-infinity; every other scalar is unchanged at the same position.
C17_OnlyNonFiniteFloatsChange ==
    sanPc = "cleaned" => ScalarsKept(sanIn, sanOut, FALSE)

\* C17 as the code has it: the scalars pd.isna recognises (None, pd.NaT,
\* pd.NA) become None as well; every other scalar is unchanged at the same
\* position.
C17_OnlyMissingAndNonFiniteChange ==
    sanPc = "cleaned" => ScalarsKept(sanIn, sanOut, TRUE)

\* a finite float, an integer, a string and a boolean went through unchanged
\* next to a NaT that became None
C17_Witness ==
    /\ sanPc = "cleaned"
    /\ sanIn.kind = "list"
    /\ Len(sanIn.items) = 3
    /\ sanIn.items[1] = Float("1.5")
    /\ sanIn.items[2] = NaT
    /\ sanIn.items[3] = BoolV("True")
    /\ sanOut = ListV(<<Float("1.5"), NoneV, BoolV("True")>>)

(***************************************************************************)
(* Cleaner specification: _clean_dataset applied once, then again to its   *)
(* own result, on a table of one numeric and one object column.            *)
(***************************************************************************)
MaxCleanRows == 4

CellSamples ==
    {NaN,
     Text(<<"7">>),
     Text(<<"$", "1", ",", "2", "0", "0">>),
     Text(<<"2", ",", "0", "0", "0", ".", "5", "0">>),
     Text(<<"N", "/", "A">>),
     Text(<<"x">>),
     Text(<<" ">>),
     Text(<<"5", "%">>)}

ClInit ==
    /\ \E r \in 0..MaxCleanRows : \E cells \in [1..r -> CellSamples] :
          clIn = <<Column("n", "number", [i \in 1..r |-> Num(i * Scale)]),
                   Column("c", "object", cells)>>
    /\ clOnce = <<>>
    /\ clTwice = <<>>
    /\ clPc = "start"
    /\ SanIdle /\ RgIdle /\ KmIdle /\ DspIdle /\ CallIdle

CleanOnce ==
    /\ clPc = "start"
    /\ clOnce' = clean_dataset(clIn)
    /\ clPc' = "once"
    /\ UNCHANGED <<clIn, clTwice, sanVars, rgVars, kmVars, dspVars, callVars>>

CleanTwice ==
    /\ clPc = "once"
    /\ clTwice' = clean_dataset(clOnce)
    /\ clPc' = "twice"
    /\ UNCHANGED <<clIn, clOnce, sanVars, rgVars, kmVars, dspVars, callVars>>

ClNext == CleanOnce \/ CleanTwice

SpecClean == ClInit /\ [][ClNext]_vars

\* C4: cleaning is idempotent: cleaning a cleaned table gives the same column
\* kinds and the same cells.
C4_CleanIdempotent ==
    clPc = "twice" => clTwice = clOnce

\* a column was converted by the first pass and the second pass has run
C4_Witness ==
    /\ clPc = "twice"
    /\ clIn[2].dtype = "object"
    /\ clOnce[2].dtype = "number"
    /\ \E i \in 1..Len(clIn[2].cells) : clOnce[2].cells[i] = NaN /\ clIn[2].cells[i] # NaN

\* the cells of a column that parse as numbers after normalization
ParsedCount(col) ==
    Cardinality({i \in 1..Len(col.cells) : NotNa(to_numeric(NormalizeCell(col.cells[i])))})

\* the cells of a column that are not Missing after normalization
NormalizedNonMissing(col) ==
    Cardinality({i \in 1..Len(col.cells) : NotNa(NormalizeCell(col.cells[i]))})

ParsedColumn(col) ==
    Column(col.name, "number",
           [i \in 1..Len(col.cells) |-> to_numeric(NormalizeCell(col.cells[i]))])

\* C5 as stated: an object column is replaced by its parsed values exactly when
\* the parsed cells exceed half of the non-missing cells of the column as
\* given, and is left unchanged otherwise.
C5_ThresholdOnOriginalCount ==
    clPc = "once" =>
        \A j \in 1..Len(clIn) :
            clIn[j].dtype = "object" =>
                IF 2 * ParsedCount(clIn[j]) > NotNaCount(clIn[j].cells)
                THEN clOnce[j] = ParsedColumn(clIn[j])
                ELSE clOnce[j] = clIn[j]

\* C5 amended: the count compared against is that of the cells that are not
\* Missing after normalization (a missing token, or a cell that normalizes to
\* the empty text, is Missing).
C5_ThresholdOnNormalizedCount ==
    clPc = "once" =>
        \A j \in 1..Len(clIn) :
            clIn[j].dtype = "object" =>
                IF 2 * ParsedCount(clIn[j]) > NormalizedNonMissing(clIn[j])
                THEN clOnce[j] = ParsedColumn(clIn[j])
                ELSE clOnce[j] = clIn[j]

\* exactly half of the non-missing cells parse, and the column stays as it was
C5_Witness ==
    /\ clPc = "once"
    /\ NormalizedNonMissing(clIn[2]) = 4
    /\ ParsedCount(clIn[2]) = 2
    /\ clOnce[2] = clIn[2]

(***************************************************************************)
(* Pipeline input tables: columns a (numeric), b (numeric, numeric text or *)
(* text) and y (numeric); some special rows drawn cell by cell, then good  *)
(* rows whose cells are all finite.                                        *)
(***************************************************************************)
MaxSpecialRows == 1
MaxGoodRows == 5

Flavors == {"number", "numtext", "text"}

FlavorDtype(fl) == IF fl = "number" THEN "number" ELSE "object"

GoodCell(fl, i) ==
    IF fl = "number" THEN Num(i * Scale)
    ELSE IF fl = "numtext" THEN Text(<<"7">>)
    ELSE Text(<<"x">>)

SpecialCells(fl) ==
    IF fl = "number" THEN {NaN, PosInf}
    ELSE IF fl = "numtext" THEN {NaN, Text(<<"$", "x">>)}
    ELSE {NaN, Text(<<"7">>)}

\* the table whose special rows hold sa, sb, sy in columns a, b, y, followed
\* by g good rows
PipelineTable(fl, sa, sb, sy, g) ==
    LET n == Len(sa)
        cells(fx, sx) == [i \in 1..(n + g) |-> IF i <= n THEN sx[i] ELSE GoodCell(fx, i - n)]
    IN  <<Column("a", "number", cells("number", sa)),
          Column("b", FlavorDtype(fl), cells(fl, sb)),
          Column("y", "number", cells("number", sy))>>

IsPipelineTable(df) ==
    \E fl \in Flavors : \E n \in 0..MaxSpecialRows : \E g \in 0..MaxGoodRows :
        \E sa \in [1..n -> SpecialCells("number")] :
        \E sb \in [1..n -> SpecialCells(fl)] :
        \E sy \in [1..n -> SpecialCells("number")] :
            df = PipelineTable(fl, sa, sb, sy, g)

(***************************************************************************)
(* Regression specification: one call of linear_regression_analysis.       *)
(***************************************************************************)
TargetArgs == {"", "a", "b", "y", "zz"}

FeatureArgs == {<<>>, <<"b", "a">>, <<"zz">>}

RegEnvs ==
    {[fault |-> "none", metric |-> "0.9"], [fault |-> "none", metric |-> "nan"],
     [fault |-> "fit", metric |-> "0.9"], [fault |-> "charts", metric |-> "0.9"]}

RgInit ==
    /\ IsPipelineTable(rgDf)
    /\ rgReq = NoRequest
    /\ rgRes = Failure("", <<>>)
    /\ rgPc = "start"
    /\ SanIdle /\ ClIdle /\ KmIdle /\ DspIdle /\ CallIdle

RegressionCall ==
    /\ rgPc = "start"
    /\ \E t \in TargetArgs : \E fs \in FeatureArgs : \E env \in RegEnvs :
          /\ rgReq' = [target |-> t, features |-> fs]
          /\ rgRes' = linear_regression_analysis(rgDf, t, fs, env)
    /\ rgPc' = "done"
    /\ UNCHANGED <<rgDf, sanVars, clVars, kmVars, dspVars, callVars>>

RgNext == RegressionCall

SpecRegression == RgInit /\ [][RgNext]_vars

Ran(res, step) == \E i \in 1..Len(res.steps) : res.steps[i] = step

\* C6: with a target that is no column of the table, linear_regression_analysis
\* returns a Failure carrying an error message, and neither cleans, splits nor
\* fits.
C6_UnknownTargetFails ==
    (rgPc = "done" /\ ~HasCol(rgDf, rgReq.target)) =>
        /\ rgRes.outcome = "failure"
        /\ rgRes.error # ""
        /\ rgRes.result.keys = <<"error">>
        /\ rgRes.steps = <<>>

\* a call that named the unknown column zz on a table with enough rows to fit
C6_Witness ==
    /\ rgPc = "done"
    /\ rgReq.target = "zz"
    /\ NRows(rgDf) >= MinRegressionRows
    /\ rgRes.outcome = "failure"

\* the numeric columns of the cleaned table
CleanedNumeric(df) ==
    {c \in {df[j].name : j \in 1..Len(df)} : clean_column(Col(df, c)).dtype = "number"}

\* sequence fs lists its names once each, in the column order of df
InTableOrder(fs, df) ==
    \A p, q \in 1..Len(fs) :
        p < q => \E i, j \in 1..Len(df) : i < j /\ df[i].name = fs[p] /\ df[j].name = fs[q]

UsableCount(df, req) ==
    LET dc == clean_dataset(df)
        fs == IF req.features = <<>>
              THEN SelectSeq(ColNames(dc), LAMBDA c : c \in CleanedNumeric(df) \ {req.target})
              ELSE req.features
        dn == [j \in 1..Len(dc) |->
                  IF \E f \in 1..Len(fs) : fs[f] = dc[j].name THEN CoerceColumn(dc[j]) ELSE dc[j]]
    IN  Len(RegUsableRows(dn, fs, req.target))

\* the validations of lines 305-332 pass
RegValid(df, req) ==
    /\ HasCol(df, req.target)
    /\ req.target \in CleanedNumeric(df)
    /\ \A f \in 1..Len(req.features) : HasCol(df, req.features[f])
    /\ (req.features = <<>> => CleanedNumeric(df) \ {req.target} # {})

\* C10: with fewer than 5 usable rows the call is a Failure and fits nothing;
\* with 5 or more it goes on to the split and the fit.
C10_FiveUsableRows ==
    (rgPc = "done" /\ RegValid(rgDf, rgReq)) =>
        IF UsableCount(rgDf, rgReq) < 5
        THEN rgRes.outcome = "failure" /\ ~Ran(rgRes, "split") /\ ~Ran(rgRes, "fit")
        ELSE Ran(rgRes, "split") /\ Ran(rgRes, "fit")

\* six rows of which a row holding an infinity is dropped, leaving five
C10_Witness ==
    /\ rgPc = "done"
    /\ RegValid(rgDf, rgReq)
    /\ NRows(rgDf) = 6
    /\ UsableCount(rgDf, rgReq) = 5
    /\ rgRes.outcome = "success"

\* four usable rows: no fit
C10_WitnessFour ==
    /\ rgPc = "done"
    /\ RegValid(rgDf, rgReq)
    /\ UsableCount(rgDf, rgReq) = 4
    /\ rgRes.outcome = "failure"

(***************************************************************************)
(* Clustering specification: one call of clustering_analysis.              *)
(***************************************************************************)
MaxK == 3

ClusterFeatureArgs ==
    {[given |-> FALSE, names |-> <<>>], [given |-> TRUE, names |-> <<>>],
     [given |-> TRUE, names |-> <<"a", "y">>], [given |-> TRUE, names |-> <<"b">>],
     [given |-> TRUE, names |-> <<"zz">>]}

ClusterEnvs ==
    {[fault |-> "none", stride |-> st, shift |-> sh, metric |-> "0.5"] :
        st \in {0, 1}, sh \in {0, 1}}
    \cup {[fault |-> "none", stride |-> 1, shift |-> 0, metric |-> "nan"]}
    \cup {[fault |-> f, stride |-> 0, shift |-> 0, metric |-> "0.5"] : f \in {"fit", "charts"}}

KmInit ==
    /\ IsPipelineTable(kmDf)
    /\ kmReq = NoClusterRequest
    /\ kmRes = Failure("", <<>>)
    /\ kmPc = "start"
    /\ SanIdle /\ ClIdle /\ RgIdle /\ DspIdle /\ CallIdle

ClusteringCall ==
    /\ kmPc = "start"
    /\ \E k \in 0..MaxK : \E fs \in ClusterFeatureArgs : \E env \in ClusterEnvs :
          /\ kmReq' = [n_clusters |-> k, features |-> fs]
          /\ kmRes' = clustering_analysis(kmDf, k, fs, env)
    /\ kmPc' = "done"
    /\ UNCHANGED <<kmDf, sanVars, clVars, rgVars, dspVars, callVars>>

KmNext == ClusteringCall

SpecClustering == KmInit /\ [][KmNext]_vars

\* the columns clustering works on, when they all exist
ClusterColumns(df, req) ==
    LET dc == clean_dataset(df)
        ns == IF req.features.given THEN req.features.names
              ELSE SelectSeq(ColNames(dc), LAMBDA c : c \in CleanedNumeric(df))
    IN  [f \in 1..Len(ns) |-> Col(dc, ns[f])]

ClusterColumnsExist(df, req) ==
    \A f \in 1..Len(req.features.names) : HasCol(df, req.features.names[f])

\* a row of numeric columns is usable when, after each missing cell got the
\* median of its column, all its cells are finite
UsableClusterCount(cols) ==
    LET n == IF Len(cols) = 0 THEN 0 ELSE Len(cols[1].cells)
    IN  Cardinality({i \in 1..n :
            \A f \in 1..Len(cols) :
                IsFinite(IF NotNa(cols[f].cells[i]) THEN cols[f].cells[i]
                         ELSE Median(cols[f].cells))})

\* C7: clustering_analysis(T, k) is a Failure and fits no k-means whenever T
\* has fewer than k rows, and whenever fewer than k rows are left after median
\* imputation and the removal of rows holding infinite values.
C7_TooFewRowsFails ==
    kmPc = "done" =>
        /\ NRows(kmDf) < kmReq.n_clusters
              => kmRes.outcome = "failure" /\ ~Ran(kmRes, "fit")
        /\ (/\ ClusterColumnsExist(kmDf, kmReq)
            /\ \A f \in 1..Len(ClusterColumns(kmDf, kmReq)) :
                  is_numeric_dtype(ClusterColumns(kmDf, kmReq)[f])
            /\ UsableClusterCount(ClusterColumns(kmDf, kmReq)) < kmReq.n_clusters)
              => kmRes.outcome = "failure" /\ ~Ran(kmRes, "fit")

\* enough rows in the table, too few once the row holding an infinity is gone
C7_Witness ==
    /\ kmPc = "done"
    /\ NRows(kmDf) = kmReq.n_clusters
    /\ kmReq.n_clusters >= 2
    /\ ClusterColumnsExist(kmDf, kmReq)
    /\ \A f \in 1..Len(ClusterColumns(kmDf, kmReq)) :
          is_numeric_dtype(ClusterColumns(kmDf, kmReq)[f])
    /\ UsableClusterCount(ClusterColumns(kmDf, kmReq)) = kmReq.n_clusters - 1
    /\ kmRes.outcome = "failure"
    /\ Ran(kmRes, "mask")

\* k = 3 on a table of two rows
C7_WitnessSmallTable ==
    /\ kmPc = "done"
    /\ NRows(kmDf) = 2
    /\ kmReq.n_clusters = 3
    /\ kmRes.outcome = "failure"

ClusterIdsInRange ==
    LET cl == kmRes.info.clusters
    IN  /\ \A i \in 1..Len(cl) : cl[i] \in 0..(kmReq.n_clusters - 1)
        /\ Cardinality({cl[i] : i \in 1..Len(cl)}) <= kmReq.n_clusters

\* C8 as stated: a successful clustering_analysis(T, k) returns one cluster id
\* per row of T, each an integer of [0, k), with at most k distinct ids.
C8_OneIdPerTableRow ==
    (kmPc = "done" /\ kmRes.outcome = "success") =>
        /\ Len(kmRes.info.clusters) = NRows(kmDf)
        /\ ClusterIdsInRange

\* C8 amended: one cluster id per usable row (the rows left after median
\* imputation and the removal of rows holding non-finite values), each in
\* [0, k), with at most k distinct ids.
C8_OneIdPerUsableRow ==
    (kmPc = "done" /\ kmRes.outcome = "success") =>
        /\ Len(kmRes.info.clusters) = UsableClusterCount(ClusterColumns(kmDf, kmReq))
        /\ Len(kmRes.result.items[1].items) = Len(kmRes.info.clusters)
        /\ ClusterIdsInRange

\* a success on a table that lost a row to the finite mask
C8_Witness ==
    /\ kmPc = "done"
    /\ kmRes.outcome = "success"
    /\ kmReq.n_clusters = 3
    /\ Len(kmRes.info.clusters) = NRows(kmDf) - 1
    /\ Cardinality({kmRes.info.clusters[i] : i \in 1..Len(kmRes.info.clusters)}) = 3

\* the data clustering is fitted on: the imputed columns on the usable rows
ClusterFitData(df, req) ==
    ClusterData(ClusterColumns(df, req), ClusterUsableRows(ClusterColumns(df, req)))

\* the mean of the members of cluster c in the units of the column, in
\* thousandths: the centre of c in the original feature space
OriginalCentre(xs, labels, c) ==
    LET M == {r \in 1..Len(xs) : labels[r] = c}
    IN  RoundDiv(10 * SeqSum([r \in 1..Len(xs) |-> IF r \in M THEN xs[r] ELSE 0]),
                 Cardinality(M))

\* the keys under which a clustering result carries its data
ClusterResultKeys ==
    {"clusters", "cluster_centers", "cluster_summary", "inertia", "visualizations"}

\* C19: the cluster centers of a successful clustering result are in the
\* original feature space (the centre of a cluster with members is the mean of
\* its members in the units of each column), or else the result carries a
\* note, next to its data, that they are standardized.
C19_CentersInOriginalSpace ==
    (kmPc = "done" /\ kmRes.outcome = "success") =>
        \/ \E i \in 1..Len(kmRes.result.keys) : kmRes.result.keys[i] \notin ClusterResultKeys
        \/ LET X      == ClusterFitData(kmDf, kmReq)
               labels == kmRes.info.clusters
           IN  \A c \in 1..kmReq.n_clusters :
                   (\E r \in 1..Len(labels) : labels[r] = c - 1) =>
                       \A f \in 1..Len(X) :
                           kmRes.result.items[2].items[c].items[f]
                               = Float(MilliText(OriginalCentre(X[f], labels, c - 1)))

\* two clusters on the rows a = 1, 2, 3, 4: the means of the members are 2 and
\* 3, the result holds the standardized -0.447 and 0.447 and nothing but its
\* five data keys
C19_CentersStandardized ==
    /\ kmPc = "done"
    /\ kmRes.outcome = "success"
    /\ kmReq = [n_clusters |-> 2, features |-> [given |-> TRUE, names |-> <<"a", "y">>]]
    /\ ClusterFitData(kmDf, kmReq)[1] = <<100, 200, 300, 400>>
    /\ kmRes.info.clusters = <<1, 0, 1, 0>>
    /\ OriginalCentre(ClusterFitData(kmDf, kmReq)[1], kmRes.info.clusters, 0) = 3000
    /\ OriginalCentre(ClusterFitData(kmDf, kmReq)[1], kmRes.info.clusters, 1) = 2000
    /\ kmRes.result.items[2].items[1].items[1] = Float("0.447")
    /\ kmRes.result.items[2].items[2].items[1] = Float("-0.447")
    /\ {kmRes.result.keys[i] : i \in 1..Len(kmRes.result.keys)} = ClusterResultKeys

(***************************************************************************)
(* Dispatcher specification: one stored dataset, then any sequence of      *)
(* create and quick_analysis requests.                                     *)
(***************************************************************************)
MaxAnalyses == 1

DatasetRowChoices == {3, 6, 12}

\* an uploaded file: a numeric column a whose first cell is empty, a
\* two-class text column c and a numeric column y; or the text column alone
StoredTable(n, numeric) ==
    LET c == Column("c", "object",
                    [i \in 1..n |-> IF i % 2 = 1 THEN Text(<<"x">>) ELSE Text(<<"w">>)])
    IN  IF numeric
        THEN <<Column("a", "number", [i \in 1..n |-> IF i = 1 THEN NaN ELSE Num(i * Scale)]),
               c,
               Column("y", "number", [i \in 1..n |-> Num(2 * i * Scale)])>>
        ELSE <<c>>

Env(fault, metric) == [fault |-> fault, metric |-> metric, stride |-> 1, shift |-> 0]

\* the library behaviours that make a difference to an analysis type
EnvChoices(t) ==
    CASE t = "descriptive"    -> {Env("none", "0.5"), Env("stats", "0.5"), Env("charts", "0.5")}
      [] t = "correlation"    -> {Env("none", "0.5"), Env("charts", "0.5"), Env("none", "nan")}
      [] t = "regression"     -> {Env("none", "0.5"), Env("fit", "0.5"), Env("none", "nan")}
      [] t = "clustering"     -> {Env("none", "0.5"), Env("fit", "0.5")}
      [] t = "classification" -> {Env("none", "0.5"), Env("fit", "0.5")}
      [] t = "visualization"  -> {Env("none", "0.5"), Env("charts", "0.5")}
      [] t = "quick_analysis" -> {Env("none", "0.5"), Env("stats", "0.5"),
                                  Env("charts", "0.5"), Env("none", "nan")}
      [] OTHER -> {Env("none", "0.5")}

\* the parameter objects tried for an analysis type
ParamChoices(t) ==
    CASE t = "descriptive" ->
            {[DefaultParams EXCEPT !.columns = cs] : cs \in {<<>>, <<"a">>, <<"zz">>}}
      [] t = "correlation" ->
            {[DefaultParams EXCEPT !.method = m] : m \in {"pearson", "bogus"}}
      [] t = "regression" ->
            {[DefaultParams EXCEPT !.target_column = c] : c \in {"", "y", "zz"}}
      [] t = "clustering" ->
            {[DefaultParams EXCEPT !.n_clusters = k] : k \in {3, 20}}
      [] t = "classification" ->
            {[DefaultParams EXCEPT !.target_column = c] : c \in {"c", "zz"}}
      [] t = "visualization" ->
            {[DefaultParams EXCEPT !.chart_type = ct, !.column = c] :
                ct \in {"histogram", "pie"}, c \in {"a", "zz"}}
      [] OTHER -> {DefaultParams}

Request(id, t, ps) == [dataset_id |-> id, analysis_type |-> t, parameters |-> ps]

DspInit ==
    /\ \/ \E n \in DatasetRowChoices :
             datasets = <<[table |-> StoredTable(n, TRUE), readable |-> TRUE]>>
       \/ datasets = <<[table |-> StoredTable(3, FALSE), readable |-> TRUE]>>
       \/ datasets = <<[table |-> <<>>, readable |-> FALSE]>>
    /\ analyses = <<>>
    /\ response = HttpResponse(0, NoneV)
    /\ trace = NoTrace
    /\ SanIdle /\ ClIdle /\ RgIdle /\ KmIdle /\ CallIdle

\* a POST to /analyses/: any type and parameters for the stored dataset, or a
\* request whose dataset id is malformed (0) or unknown
Create ==
    /\ Len(analyses) < MaxAnalyses
    /\ \E id \in 0..(Len(datasets) + 1) : \E t \in ANALYSIS_TYPES \cup {"bogus"} :
       \E ps \in ParamChoices(t) : \E env \in EnvChoices(t) :
          /\ id # 1 => (t = "descriptive" /\ ps = DefaultParams /\ env = Env("none", "0.5"))
          /\ LET h == create(datasets, Request(id, t, ps), env)
             IN  /\ analyses' = analyses \o h.stored
                 /\ response' = h.response
                 /\ trace' = h.trace
    /\ UNCHANGED <<datasets, sanVars, clVars, rgVars, kmVars, callVars>>

\* a POST to /analyses/quick_analysis/
QuickAnalysis ==
    /\ \E id \in 0..(Len(datasets) + 1) : \E env \in EnvChoices("quick_analysis") :
          LET h == quick_analysis(datasets, Request(id, "quick_analysis", DefaultParams), env)
          IN  /\ response' = h.response
              /\ trace' = h.trace
    /\ UNCHANGED <<datasets, analyses, sanVars, clVars, rgVars, kmVars, callVars>>

DspNext == Create \/ QuickAnalysis

SpecDispatch == DspInit /\ [][DspNext]_vars

EndsWith(steps, suffix) ==
    /\ Len(steps) >= Len(suffix)
    /\ SubSeq(steps, Len(steps) - Len(suffix) + 1, Len(steps)) = suffix

\* C2: on every path through create and quick_analysis the sanitizer is the
\* last step before the result is stored or returned, and no stored or
\* returned result holds a non-finite number.
C2_ResultsSanitizedLast ==
    /\ \A i \in 1..Len(analyses) :
          /\ ~HasNonFinite(analyses[i].results)
          /\ clean_for_json(analyses[i].results) = analyses[i].results
    /\ ~HasNonFinite(response.body)
    /\ (trace.handler = "create" /\ response.status = 201)
          => EndsWith(trace.steps, <<"dispatch", "sanitize", "store", "respond">>)
    /\ (trace.handler = "quick_analysis" /\ response.status = 200)
          => EndsWith(trace.steps, <<"dispatch", "sanitize", "respond">>)

\* a stored regression whose statistic came out NaN, answered with 201
C2_Witness ==
    /\ trace.handler = "create"
    /\ response.status = 201
    /\ trace.request.analysis_type = "regression"
    /\ trace.env.metric = "nan"
    /\ trace.calls = <<[fn |-> "linear_regression_analysis", outcome |-> "success"]>>
    /\ Len(analyses) = 1

\* C3: every pipeline entry point the dispatcher calls returns a success
\* record or a tagged failure; none lets an exception reach its caller.
C3_EntryPointsNeverRaise ==
    \A i \in 1..Len(trace.calls) : trace.calls[i].outcome \in {"success", "failure"}

\* descriptive_statistics asked for a column the table lacks
C3_DescriptiveRaises ==
    /\ trace.handler = "create"
    /\ trace.request.analysis_type = "descriptive"
    /\ trace.request.parameters.columns = <<"zz">>
    /\ trace.calls = <<[fn |-> "descriptive_statistics", outcome |-> "raised"]>>
    /\ response.status = 500

\* C14: in a quick request every sub-analysis is isolated: once the dataset
\* is loaded the response is a result holding all six sub-results, a failed
\* one tagged as a failure, whatever happens inside a sub-analysis.
C14_QuickIsolatesFailures ==
    (trace.handler = "quick_analysis" /\ Ran(trace, "dispatch")) =>
        /\ response.status = 200
        /\ response.body.keys = <<"descriptive", "correlation", "dataset_info", "data_quality",
                                  "ai_insights", "visualization_recommendations">>

\* descriptive_statistics succeeded, correlation_analysis raised, and the
\* whole quick request was answered 500 with no sub-result
C14_QuickAborted ==
    /\ trace.handler = "quick_analysis"
    /\ trace.calls = <<[fn |-> "descriptive_statistics", outcome |-> "success"],
                       [fn |-> "correlation_analysis", outcome |-> "raised"]>>
    /\ response.status = 500
    /\ response.body = ErrorTree("exception")

(***************************************************************************)
(* Classification specification: one call of classification_analysis on a  *)
(* table with a numeric feature f, a text feature g and a target t.        *)
(***************************************************************************)
MaxClsRows == 11

TargetKinds == {"two", "one", "num", "numnan", "lone"}

\* the target column: two text classes, one text class, two numeric classes,
\* the same with an empty second cell, or a class with a single member
ClsTargetColumn(n, tk) ==
    IF tk \in {"num", "numnan"}
    THEN Column("t", "number",
                [i \in 1..n |-> IF tk = "numnan" /\ i = 2 THEN NaN ELSE Num((i % 2) * Scale)])
    ELSE Column("t", "object",
                [i \in 1..n |-> IF tk = "one" THEN Text(<<"x">>)
                                ELSE IF tk = "lone"
                                THEN (IF i = n THEN Text(<<"w">>) ELSE Text(<<"x">>))
                                ELSE (IF i % 2 = 1 THEN Text(<<"x">>) ELSE Text(<<"w">>))])

\* n rows; the first bad cells of f hold sp; the last cell of g is empty
\* when gm
ClsTable(n, bad, sp, gm, tk) ==
    <<Column("f", "number", [i \in 1..n |-> IF i <= bad THEN sp ELSE Num(i * Scale)]),
      Column("g", "object",
             [i \in 1..n |-> IF gm /\ i = n THEN NaN
                             ELSE IF i % 3 = 0 THEN Text(<<"q">>) ELSE Text(<<"p">>)]),
      ClsTargetColumn(n, tk)>>

ClsTargetArgs == {"t", "zz"}

ClsFeatureArgs == {<<>>, <<"f">>, <<"g", "f">>, <<"zz">>}

ClsEnvs == {Env("none", "0.5"), Env("fit", "0.5"), Env("charts", "0.5")}

ClsInit ==
    /\ \E n \in 8..MaxClsRows : \E bad \in 0..2 : \E sp \in {NaN, PosInf} :
       \E gm \in BOOLEAN : \E tk \in TargetKinds :
          callArgs = [df |-> ClsTable(n, bad, sp, gm, tk)]
    /\ callRes = <<>>
    /\ callPc = "start"
    /\ SanIdle /\ ClIdle /\ RgIdle /\ KmIdle /\ DspIdle

ClassificationCall ==
    /\ callPc = "start"
    /\ \E t \in ClsTargetArgs : \E fs \in ClsFeatureArgs : \E env \in ClsEnvs :
          /\ callArgs' = [df |-> callArgs.df, target_column |-> t,
                          feature_columns |-> fs, env |-> env]
          /\ callRes' = classification_analysis(callArgs.df, t, fs, env)
    /\ callPc' = "done"
    /\ UNCHANGED <<sanVars, clVars, rgVars, kmVars, dspVars>>

ClsNext == ClassificationCall

SpecClassification == ClsInit /\ [][ClsNext]_vars

\* the features a call works on, and whether its validations pass
ClsSelected(args) ==
    IF args.feature_columns = <<>>
    THEN SelectSeq(ColNames(args.df), LAMBDA c : c # args.target_column)
    ELSE args.feature_columns

ClsValid(args) ==
    /\ HasCol(args.df, args.target_column)
    /\ ClsSelected(args) # <<>>
    /\ \A f \in 1..Len(ClsSelected(args)) : HasCol(args.df, ClsSelected(args)[f])

\* the rows that survive imputation and the finite mask, and the classes of
\* the target on them
ClsUsable(args) ==
    LET dc == clean_dataset(args.df)
        fs == ClsSelected(args)
    IN  ClsUsableRows([f \in 1..Len(fs) |-> ClsFeatureColumn(Col(dc, fs[f]))],
                      ClsTarget(Col(dc, args.target_column)))

ClsClassCount(args) ==
    Cardinality(ClsClasses(ClsTarget(Col(clean_dataset(args.df), args.target_column)),
                           ClsUsable(args)))

\* C11: with fewer than 10 usable rows, or fewer than 2 classes of the target
\* on the usable rows, classification_analysis returns a Failure and fits no
\* model.
C11_TooFewRowsOrClassesFails ==
    (callPc = "done" /\ ClsValid(callArgs)) =>
        ((Len(ClsUsable(callArgs)) < 10 \/ ClsClassCount(callArgs) < 2) =>
            /\ callRes.outcome = "failure"
            /\ ~Ran(callRes, "fit"))

\* ten rows of which the one holding an infinity is dropped, leaving nine
C11_Witness ==
    /\ callPc = "done"
    /\ ClsValid(callArgs)
    /\ NRows(callArgs.df) = 10
    /\ Len(ClsUsable(callArgs)) = 9
    /\ ClsClassCount(callArgs) = 2
    /\ callRes.outcome = "failure"

\* enough rows, one class
C11_WitnessOneClass ==
    /\ callPc = "done"
    /\ ClsValid(callArgs)
    /\ Len(ClsUsable(callArgs)) >= 10
    /\ ClsClassCount(callArgs) = 1
    /\ callRes.outcome = "failure"

\* ten usable rows, two classes: the model is fitted
C11_WitnessFitted ==
    /\ callPc = "done"
    /\ ClsValid(callArgs)
    /\ Len(ClsUsable(callArgs)) = 10
    /\ callRes.outcome = "success"

\* C15: a failure while one chart is constructed omits only that chart: a
\* call that got as far as building its charts returns its Success result.
C15_ChartFailureKeepsResult ==
    (callPc = "done" /\ ClsValid(callArgs) /\ Ran(callRes, "charts")) =>
        callRes.outcome = "success"

\* the classifier was fitted on ten usable rows, a chart constructor raised,
\* and the call returned a Failure without accuracy or feature importance
C15_ChartFailureAborts ==
    /\ callPc = "done"
    /\ ClsValid(callArgs)
    /\ callArgs.env.fault = "charts"
    /\ Len(ClsUsable(callArgs)) = 10
    /\ Ran(callRes, "fit")
    /\ callRes.outcome = "failure"
    /\ callRes.result = ErrorTree("Error in classification analysis")

\* the texts that occur most often among the filled cells of a column
ModalTexts(cells) ==
    LET filled == {i \in 1..Len(cells) : NotNa(cells[i])}
        count(t) == Cardinality({i \in filled : AsStr(cells[i]) = t})
    IN  {AsStr(cells[i]) : i \in {i \in filled :
                                    \A j \in filled : count(AsStr(cells[j])) <= count(AsStr(cells[i]))}}

\* C18: a missing cell of a categorical feature column is replaced by the
\* column's modal value before the model is fitted: in the data the model is
\* fitted on, the cell stands for a modal text of its column and never for a
\* category of its own.
C18_MissingCategoricalGetsMode ==
    (callPc = "done" /\ ClsValid(callArgs) /\ callRes.outcome = "success") =>
        \A f \in 1..Len(ClsSelected(callArgs)) :
            LET col == Col(clean_dataset(callArgs.df), ClsSelected(callArgs)[f])
                rows == ClsUsable(callArgs)
            IN  ~is_numeric_dtype(col) =>
                    \A r \in 1..Len(rows) :
                        ~NotNa(col.cells[rows[r]]) =>
                            callRes.info.fitted[f][r].s \in ModalTexts(col.cells)

\* the text feature g has an empty last cell; the model is fitted on a row
\* whose g is the code of the text "nan", which no filled cell of g holds
C18_MissingIsOwnCategory ==
    /\ callPc = "done"
    /\ ClsValid(callArgs)
    /\ callRes.outcome = "success"
    /\ ClsSelected(callArgs) = <<"g", "f">>
    /\ ~NotNa(Col(callArgs.df, "g").cells[NRows(callArgs.df)])
    /\ ModalTexts(Col(callArgs.df, "g").cells) = {<<"p">>}
    /\ LET g == callRes.info.fitted[1]
       IN  /\ g[Len(g)] = [k |-> "code", n |-> 0, s |-> <<"n", "a", "n">>]
           /\ \A r \in 1..(Len(g) - 1) : g[r].s \in {<<"p">>, <<"q">>}

(***************************************************************************)
(* Strong-pairs specification: one call of _find_strong_correlations on a  *)
(* symmetric matrix over up to MaxCorrCols columns.                        *)
(***************************************************************************)
MaxCorrCols == 3

CorrColumnNames == <<"a", "b", "c", "d", "e">>

\* correlations on both sides of the threshold, one that rounds down, one
\* that rounds up, a perfect one and an undefined one
CorrSamples == {NaN, Num(10000), Num(7000), Num(6999), Num(-7000), Num(-8126), Num(1234)}

CorrInit ==
    /\ \E n \in 1..MaxCorrCols :
       \E up \in [{<<i, j>> \in (1..n) \X (1..n) : i < j} -> CorrSamples] :
          callArgs = [corr_matrix |->
                        [columns |-> SubSeq(CorrColumnNames, 1, n),
                         val |-> [i \in 1..n |-> [j \in 1..n |->
                                    IF i = j THEN Num(CorrScale)
                                    ELSE IF i < j THEN up[<<i, j>>] ELSE up[<<j, i>>]]]]]
    /\ callRes = <<>>
    /\ callPc = "start"
    /\ SanIdle /\ ClIdle /\ RgIdle /\ KmIdle /\ DspIdle

FindStrongCall ==
    /\ callPc = "start"
    /\ callRes' = find_strong_correlations(callArgs.corr_matrix)
    /\ callPc' = "done"
    /\ UNCHANGED <<callArgs, sanVars, clVars, rgVars, kmVars, dspVars>>

CorrNext == FindStrongCall

SpecStrongPairs == CorrInit /\ [][CorrNext]_vars

\* the entries of the list that name columns i and j, in either order
EntriesFor(out, cols, i, j) ==
    {k \in 1..Len(out) :
        \/ out[k].feature1 = cols[i] /\ out[k].feature2 = cols[j]
        \/ out[k].feature1 = cols[j] /\ out[k].feature2 = cols[i]}

\* C12: the list holds every unordered pair of distinct columns whose
\* absolute correlation is >= 0.7, once, with the signed correlation rounded
\* to 3 decimals, and nothing else: no weaker pair, no undefined one, no
\* column with itself.
C12_StrongPairsExact ==
    callPc = "done" =>
        LET m    == callArgs.corr_matrix
            n    == Len(m.columns)
            v(i, j) == m.val[i][j]
        IN  /\ \A i \in 1..n : \A j \in (i + 1)..n :
                  IF v(i, j).k = "num" /\ Abs(v(i, j).n) >= 7000
                  THEN /\ Cardinality(EntriesFor(callRes, m.columns, i, j)) = 1
                       /\ \A k \in EntriesFor(callRes, m.columns, i, j) :
                             /\ Abs(10 * callRes[k].correlation - v(i, j).n) <= 5
                             /\ callRes[k].feature1 = m.columns[i]
                             /\ callRes[k].feature2 = m.columns[j]
                  ELSE EntriesFor(callRes, m.columns, i, j) = {}
            /\ \A k \in 1..Len(callRes) :
                  /\ callRes[k].feature1 # callRes[k].feature2
                  /\ \E i \in 1..n : \E j \in (i + 1)..n : k \in EntriesFor(callRes, m.columns, i, j)

\* a pair exactly at 0.7, a pair just below and an undefined pair
C12_Witness ==
    /\ callPc = "done"
    /\ Len(callArgs.corr_matrix.columns) = 3
    /\ callArgs.corr_matrix.val[1][2] = Num(7000)
    /\ callArgs.corr_matrix.val[1][3] = Num(6999)
    /\ callArgs.corr_matrix.val[2][3] = NaN
    /\ callRes = <<[feature1 |-> "a", feature2 |-> "b", correlation |-> 700]>>

(***************************************************************************)
(* Data-quality specification: one call of _analyze_data_quality on a      *)
(* table of a numeric and a text column.                                   *)
(***************************************************************************)
MaxQualityRows == 3

QualityNumbers == {NaN, Num(100), Num(200)}

QualityTexts == {NaN, Text(<<"x">>), Text(<<"w">>)}

QualityInit ==
    /\ \E r \in 0..MaxQualityRows :
       \E na \in [1..r -> QualityNumbers] : \E tc \in [1..r -> QualityTexts] :
          callArgs = [df |-> <<Column("a", "number", na), Column("c", "object", tc)>>]
    /\ callRes = <<>>
    /\ callPc = "start"
    /\ SanIdle /\ ClIdle /\ RgIdle /\ KmIdle /\ DspIdle

QualityCall ==
    /\ callPc = "start"
    /\ \E env \in {Env("none", "0.5"), Env("stats", "0.5")} :
          /\ callArgs' = [df |-> callArgs.df, env |-> env]
          /\ callRes' = DataQuality(callArgs.df, env)
    /\ callPc' = "done"
    /\ UNCHANGED <<sanVars, clVars, rgVars, kmVars, dspVars>>

QualityNext == QualityCall

SpecQuality == QualityInit /\ [][QualityNext]_vars

\* the cells of a table that are missing, and its rows equal to an earlier row
MissingCellCount(df) ==
    Cardinality({<<i, j>> \in (1..NRows(df)) \X (1..Len(df)) : df[j].cells[i].k = "nan"})

DuplicateRowCount(df) ==
    Cardinality({i \in 1..NRows(df) :
                    \E h \in 1..(i - 1) : \A j \in 1..Len(df) : df[j].cells[h] = df[j].cells[i]})

C13_WitnessEmpty ==
    /\ callPc = "done"
    /\ ~callRes.error
    /\ NRows(callArgs.df) = 0
    /\ callRes.score = 1000

(***************************************************************************)
(* Interpretation specification: one call of _interpret_regression_results *)
(* on a test R-squared and the coefficients of up to MaxFeatures features. *)
(***************************************************************************)
MaxFeatures == 4

FeatureNames == <<"a", "b", "c", "d", "e", "f">>

\* R-squared in hundredths: around each threshold, negative, and undefined
R2Samples ==
    {NaN} \cup {Num(n) : n \in {-50, 0, 39, 40, 41, 59, 60, 61, 79, 80, 81, 100}}

CoefSamples == {-3, 1, 2, 3}

InterpretInit ==
    /\ \E r2 \in R2Samples : \E k \in 0..MaxFeatures : \E cs \in [1..k -> CoefSamples] :
          callArgs = [r2_score |-> r2,
                      feature_importance |->
                          [i \in 1..k |-> [name |-> FeatureNames[i], coef |-> cs[i]]]]
    /\ callRes = <<>>
    /\ callPc = "start"
    /\ SanIdle /\ ClIdle /\ RgIdle /\ KmIdle /\ DspIdle

InterpretCall ==
    /\ callPc = "start"
    /\ callRes' = interpret_regression_results(callArgs.r2_score, callArgs.feature_importance)
    /\ callPc' = "done"
    /\ UNCHANGED <<callArgs, sanVars, clVars, rgVars, kmVars, dspVars>>

InterpretNext == InterpretCall

SpecInterpret == InterpretInit /\ [][InterpretNext]_vars

\* the label the thresholds give: a boundary belongs to the higher label
ThresholdLabel(r2) ==
    IF r2.k = "num" /\ ~(r2.n < 80) THEN "Excellent model performance with high explanatory power."
    ELSE IF r2.k = "num" /\ ~(r2.n < 60) THEN "Good model performance with moderate explanatory power."
    ELSE IF r2.k = "num" /\ ~(r2.n < 40) THEN "Fair model performance. Consider feature engineering."
    ELSE "Poor model performance. Review features and data quality."

\* the lists of names the interpretation may show: the features of largest
\* absolute coefficient, three of them or all when there are fewer, each
\* once, by decreasing absolute coefficient
TopNameLists(items) ==
    LET k == IF Len(items) < 3 THEN Len(items) ELSE 3
    IN  {[p \in 1..k |-> items[pick[p]].name] :
            pick \in {q \in [1..k -> 1..Len(items)] :
                        /\ \A a, b \in 1..k : a # b => q[a] # q[b]
                        /\ \A a \in 1..(k - 1) :
                              Abs(items[q[a]].coef) >= Abs(items[q[a + 1]].coef)
                        /\ \A i \in 1..Len(items) :
                              (\A a \in 1..k : q[a] # i) =>
                                  \A a \in 1..k : Abs(items[q[a]].coef) >= Abs(items[i].coef)}}

\* C20: the interpretation starts with the label chosen from the test
\* R-squared by the thresholds >= 0.8 excellent, >= 0.6 good, >= 0.4 fair,
\* otherwise poor, followed by at most 3 feature names by decreasing absolute
\* coefficient.
C20_InterpretationLabelThenTopFeatures ==
    callPc = "done" =>
        \E names \in TopNameLists(callArgs.feature_importance) :
            /\ Len(names) <= 3
            /\ callRes = ThresholdLabel(callArgs.r2_score) \o " Most important features: "
                         \o JoinNames(names)

\* R-squared exactly 0.8 and four features: the label is the excellent one and
\* the feature of smallest absolute coefficient is left out
C20_Witness ==
    /\ callPc = "done"
    /\ callArgs.r2_score = Num(80)
    /\ callArgs.feature_importance =
          <<[name |-> "a", coef |-> 1], [name |-> "b", coef |-> -3],
            [name |-> "c", coef |-> 2], [name |-> "d", coef |-> 3]>>
    /\ callRes = "Excellent model performance with high explanatory power. Most important features: b, d, c"

\* R-squared undefined: the label is the poor one
C20_WitnessPoor ==
    /\ callPc = "done"
    /\ callArgs.r2_score = NaN
    /\ callArgs.feature_importance = <<>>
    /\ callRes = "Poor model performance. Review features and data quality. Most important features: "

(***************************************************************************)
(* Descriptive specification: one call of descriptive_statistics on a      *)
(* table with numeric columns a and b and a text column c.                 *)
(***************************************************************************)
MaxDescRows == 10

\* up to MaxDescRows rows, and a table long enough for the cap of 30 bins
DescRowChoices == (0..MaxDescRows) \cup {1000}

\* n rows; the first ma cells of a and the last mb cells of b are empty
DescTable(n, ma, mb) ==
    <<Column("a", "number", [i \in 1..n |-> IF i <= ma THEN NaN ELSE Num(i * Scale)]),
      Column("b", "number", [i \in 1..n |-> IF i > n - mb THEN NaN ELSE Num(i * Scale)]),
      Column("c", "object", [i \in 1..n |-> Text(<<"x">>)])>>

DescColumnArgs == {<<>>, <<"a">>, <<"b", "a">>, <<"zz">>}

DescEnvs == {Env("none", "0.5"), Env("stats", "0.5"), Env("charts", "0.5")}

DescInit ==
    /\ \E n \in DescRowChoices : \E ma \in {0, 1, 2} : \E mb \in {0, 1, n \div 2, n} :
          /\ ma <= n
          /\ callArgs = [df |-> DescTable(n, ma, mb)]
    /\ callRes = <<>>
    /\ callPc = "start"
    /\ SanIdle /\ ClIdle /\ RgIdle /\ KmIdle /\ DspIdle

DescriptiveCall ==
    /\ callPc = "start"
    /\ \E cols \in DescColumnArgs : \E env \in DescEnvs :
          /\ callArgs' = [df |-> callArgs.df, columns |-> cols, env |-> env]
          /\ callRes' = descriptive_statistics(callArgs.df, cols, env)
    /\ callPc' = "done"
    /\ UNCHANGED <<sanVars, clVars, rgVars, kmVars, dspVars>>

DescNext == DescriptiveCall

SpecDescriptive == DescInit /\ [][DescNext]_vars

\* min(30, floor(sqrt(n)))
BinsFor(n) == IF ISqrt(n) > 30 THEN 30 ELSE ISqrt(n)

\* C21: the histogram of each numeric column has min(30, floor(sqrt(n))) bins,
\* n the number of non-missing cells of that column, whatever is missing in
\* the other columns.
C21_BinsFromOwnColumn ==
    (callPc = "done" /\ callRes.outcome = "success") =>
        LET charts == callRes.result.items[2]
        IN  \A c \in 1..Len(charts.keys) :
                charts.items[c].items[1]
                    = IntV(ToString(BinsFor(NotNaCount(Col(callArgs.df, charts.keys[c]).cells))))

\* nine rows, a complete, four cells of b empty: the histogram of a has
\* floor(sqrt(5)) = 2 bins where its own nine cells give 3
C21_BinsFromCompleteRows ==
    /\ callPc = "done"
    /\ callRes.outcome = "success"
    /\ callArgs.columns = <<>>
    /\ callArgs.env.fault = "none"
    /\ NRows(callArgs.df) = 9
    /\ NotNaCount(Col(callArgs.df, "a").cells) = 9
    /\ NotNaCount(Col(callArgs.df, "b").cells) = 5
    /\ callRes.result.items[2].keys = <<"a", "b">>
    /\ callRes.result.items[2].items[1] = DictV(<<"nbins">>, <<IntV("2")>>)

\* a thousand complete rows: both histograms have the 30 bins of the cap
C21_WitnessCap ==
    /\ callPc = "done"
    /\ callRes.outcome = "success"
    /\ callArgs.columns = <<>>
    /\ callArgs.env.fault = "none"
    /\ CompleteRows(callArgs.df, <<"a", "b">>) = 1000
    /\ callRes.result.items[2].items[1] = DictV(<<"nbins">>, <<IntV("30")>>)

(***************************************************************************)
(* Recommendation specification: one call of                               *)
(* _get_visualization_recommendations on a table of up to MaxRecNumeric    *)
(* numeric and up to 3 text columns of 21 rows.                            *)
(***************************************************************************)
MaxRecNumeric == 5

\* the numbers of distinct values of a text column, on both sides of the
\* limits 10 and 20
DistinctChoices == {10, 11, 20, 21}

\* nn numeric columns n1.., then one text column c1.. per entry of us, the
\* j-th with us[j] distinct values
RecTable(nn, us) ==
    [j \in 1..(nn + Len(us)) |->
        IF j <= nn
        THEN Column("n" \o ToString(j), "number", [i \in 1..21 |-> Num(i * Scale)])
        ELSE Column("c" \o ToString(j - nn), "object",
                    [i \in 1..21 |-> Text(<<ToString(i % us[j - nn])>>)])]

RecInit ==
    /\ \E nn \in 0..MaxRecNumeric : \E nc \in 0..3 : \E us \in [1..nc -> DistinctChoices] :
          callArgs = [df |-> RecTable(nn, us)]
    /\ callRes = <<>>
    /\ callPc = "start"
    /\ SanIdle /\ ClIdle /\ RgIdle /\ KmIdle /\ DspIdle

RecommendCall ==
    /\ callPc = "start"
    /\ \E env \in {Env("none", "0.5"), Env("stats", "0.5")} :
          /\ callArgs' = [df |-> callArgs.df, env |-> env]
          /\ callRes' = get_visualization_recommendations(callArgs.df, env)
    /\ callPc' = "done"
    /\ UNCHANGED <<sanVars, clVars, rgVars, kmVars, dspVars>>

RecNext == RecommendCall

SpecRecommend == RecInit /\ [][RecNext]_vars

\* the priority a returned record is tagged with
PriorityOf(rec) == rec.items[3].val

\* C22 as stated: at most 10 suggestions are returned, each tagged high or
\* medium.
C22_AtMostTenHighOrMedium ==
    callPc = "done" =>
        /\ Len(callRes.items) <= 10
        /\ \A i \in 1..Len(callRes.items) : PriorityOf(callRes.items[i]) \in {"high", "medium"}

\* C22 amended: at most 10 records are returned; each is a suggestion tagged
\* high or medium, unless generating them raised, in which case the list is
\* the single error record tagged low.
C22_AtMostTenOrErrorRecord ==
    callPc = "done" =>
        /\ Len(callRes.items) <= 10
        /\ \/ \A i \in 1..Len(callRes.items) :
                 /\ PriorityOf(callRes.items[i]) \in {"high", "medium"}
                 /\ callRes.items[i].items[1].val
                        \in {"histogram", "bar", "heatmap", "scatter", "box"}
           \/ /\ callArgs.env.fault = "stats"
              /\ callRes.items = <<Recommendation("error", <<>>, "low")>>

\* five numeric columns and a text column of 10 values give 5 histograms, a
\* bar chart, a heatmap, 6 scatter plots and 2 box plots: the first 10 are
\* returned, the medium histograms of columns 4 and 5 among them
C22_Witness ==
    /\ callPc = "done"
    /\ callArgs.env.fault = "none"
    /\ Len(NumericCols(callArgs.df)) = 5
    /\ Len(ObjectCols(callArgs.df)) = 1
    /\ NUnique(Col(callArgs.df, "c1").cells) = 10
    /\ Len(callRes.items) = 10
    /\ callRes.items[5] = Recommendation("histogram", <<"n5">>, "medium")
    /\ callRes.items[6] = Recommendation("bar", <<"c1">>, "high")
    /\ callRes.items[10] = Recommendation("scatter", <<"n1", "n4">>, "medium")

\* counting the distinct values of a text column raised: one record tagged low
C22_WitnessErrorRecord ==
    /\ callPc = "done"
    /\ callArgs.env.fault = "stats"
    /\ callRes.items = <<Recommendation("error", <<>>, "low")>>

(***************************************************************************)
(* Quality-hints specification: one call of _analyze_data_quality on a     *)
(* table of a numeric column of a chosen name and a text column c.         *)
(***************************************************************************)
MaxHintRows == 5

HintColumnNames == {"a", "duplicates", "missing data"}

\* n rows, the first miss of them empty; the numeric column holds 1
\* everywhere, and 100 in its last cell when spike; the texts of c are all
\* the same when dup and all different otherwise
HintTable(nm, n, spike, dup, miss) ==
    <<Column(nm, "number",
             [i \in 1..n |-> IF i <= miss THEN NaN
                             ELSE IF spike /\ i = n THEN Num(100 * Scale) ELSE Num(Scale)]),
      Column("c", "object",
             [i \in 1..n |-> IF i <= miss THEN NaN
                             ELSE IF dup THEN Text(<<"x">>) ELSE Text(<<ToString(i)>>)])>>

HintInit ==
    /\ \E nm \in HintColumnNames : \E n \in 4..MaxHintRows : \E spike, dup \in BOOLEAN :
       \E miss \in 0..n :
          callArgs = [df |-> HintTable(nm, n, spike, dup, miss)]
    /\ callRes = <<>>
    /\ callPc = "start"
    /\ SanIdle /\ ClIdle /\ RgIdle /\ KmIdle /\ DspIdle

HintNext == QualityCall

SpecQualityHints == HintInit /\ [][HintNext]_vars

\* the issue flagged under a heading, and the hint issued
IssueFlagged(q, heading) ==
    \E i \in 1..Len(q.issues) :
        \/ q.issues[i] = heading
        \/ heading = "Potential outliers" /\ q.issues[i] \notin {"High missing data rate",
                                                                 "Duplicate rows detected"}

HintIssued(q, hint) == \E i \in 1..Len(q.recommendations) : q.recommendations[i] = hint

\* C23: each issue hint is issued exactly when its issue was flagged, whatever
\* the column names are; 'clean/preprocess' exactly when the score is below
\* 70 and 'review data sources' exactly when it is below 50.
C23_HintsFollowIssues ==
    (callPc = "done" /\ ~callRes.error) =>
        /\ HintIssued(callRes, "Handle missing values through imputation or removal")
              <=> IssueFlagged(callRes, "High missing data rate")
        /\ HintIssued(callRes, "Remove or investigate duplicate records")
              <=> IssueFlagged(callRes, "Duplicate rows detected")
        /\ HintIssued(callRes, "Investigate and handle outliers appropriately")
              <=> IssueFlagged(callRes, "Potential outliers")
        /\ HintIssued(callRes, "Consider data cleaning and preprocessing")
              <=> ScoreBelow(quality_score_exact(callRes.counts), 70)
        /\ HintIssued(callRes, "Significant data quality issues detected - review data sources")
              <=> ScoreBelow(quality_score_exact(callRes.counts), 50)

\* four distinct rows, nothing missing, the column named duplicates holds
\* 1, 1, 1, 100: the only issue is the outlier one, and the hint to remove
\* duplicate records is issued with it
C23_HintFromColumnName ==
    /\ callPc = "done"
    /\ ~callRes.error
    /\ NRows(callArgs.df) = 4
    /\ MissingCellCount(callArgs.df) = 0
    /\ DuplicateRowCount(callArgs.df) = 0
    /\ callArgs.df[1].name = "duplicates"
    /\ callRes.score = 1000
    /\ callRes.issues = <<"Potential outliers in: duplicates">>
    /\ callRes.recommendations = <<"Remove or investigate duplicate records",
                                   "Investigate and handle outliers appropriately">>

\* a table scoring below 50 with both ratio issues gets the four hints
C23_WitnessLowScore ==
    /\ callPc = "done"
    /\ ~callRes.error
    /\ callRes.score < 500
    /\ callRes.issues = <<"High missing data rate", "Duplicate rows detected">>
    /\ Len(callRes.recommendations) = 4

(***************************************************************************)
(* Frame specification: up to MaxFrameCalls calls of the cleaner and the   *)
(* pipelines, one after the other, on the same table object.  callRes      *)
(* holds the table the object holds now and the last call with its result. *)
(***************************************************************************)
MaxFrameCalls == 2

FrameEnv == Env("none", "0.5")

FrameTables ==
    {PipelineTable(fl, <<sa>>, <<sb>>, <<PosInf>>, 5) :
        fl \in Flavors, sa \in SpecialCells("number"), sb \in {NaN, Text(<<"7">>)}}

NoFrameParams == [target |-> "", features |-> <<>>, k |-> 0]

FrameInit ==
    /\ \E df \in FrameTables : /\ callArgs = [df |-> df]
                               /\ callRes = [table |-> df, fn |-> "none",
                                             params |-> NoFrameParams, result |-> <<>>]
    /\ callPc = 0
    /\ SanIdle /\ ClIdle /\ RgIdle /\ KmIdle /\ DspIdle

\* one call; the objects it created are gone when it returns, the caller's
\* object stays
FrameStep(fn, params, after, result) ==
    /\ callPc < MaxFrameCalls
    /\ callPc' = callPc + 1
    /\ callRes' = [table |-> after[1], fn |-> fn, params |-> params, result |-> result]
    /\ UNCHANGED <<callArgs, sanVars, clVars, rgVars, kmVars, dspVars>>

FrameClean ==
    FrameStep("clean", NoFrameParams,
              clean_dataset_on(<<callRes.table>>, 1).heap,
              clean_dataset_on(<<callRes.table>>, 1)
                  .heap[clean_dataset_on(<<callRes.table>>, 1).ref])

FrameRegression ==
    \E t \in {"y", "zz"} : \E fs \in {<<>>, <<"b", "a">>} :
        FrameStep("regression", [NoFrameParams EXCEPT !.target = t, !.features = fs],
                  regression_on(<<callRes.table>>, 1, t, fs, FrameEnv).heap,
                  regression_on(<<callRes.table>>, 1, t, fs, FrameEnv).result)

FrameClustering ==
    \E k \in {2} : \E fs \in {<<>>, <<"a", "y">>} :
        FrameStep("clustering", [NoFrameParams EXCEPT !.k = k, !.features = fs],
                  clustering_on(<<callRes.table>>, 1, k,
                                [given |-> fs # <<>>, names |-> fs], FrameEnv).heap,
                  clustering_on(<<callRes.table>>, 1, k,
                                [given |-> fs # <<>>, names |-> fs], FrameEnv).result)

FrameClassification ==
    \E fs \in {<<"b", "a">>} :
        FrameStep("classification", [NoFrameParams EXCEPT !.target = "y", !.features = fs],
                  classification_on(<<callRes.table>>, 1, "y", fs, FrameEnv).heap,
                  classification_on(<<callRes.table>>, 1, "y", fs, FrameEnv).result)

FrameDescriptive ==
    FrameStep("descriptive", NoFrameParams,
              descriptive_on(<<callRes.table>>, 1, <<>>, FrameEnv).heap,
              descriptive_on(<<callRes.table>>, 1, <<>>, FrameEnv).result)

FrameCorrelation ==
    FrameStep("correlation", NoFrameParams,
              correlation_on(<<callRes.table>>, 1, "pearson", FrameEnv).heap,
              correlation_on(<<callRes.table>>, 1, "pearson", FrameEnv).result)

FrameQuick ==
    FrameStep("quick", NoFrameParams,
              quick_on(<<callRes.table>>, 1, FrameEnv).heap,
              quick_on(<<callRes.table>>, 1, FrameEnv).result)

FrameNext ==
    \/ FrameClean
    \/ FrameRegression
    \/ FrameClustering
    \/ FrameClassification
    \/ FrameDescriptive
    \/ FrameCorrelation
    \/ FrameQuick

SpecFrame == FrameInit /\ [][FrameNext]_vars

\* what the last call returns when it is the only call made on the initial
\* table
FreshResult(df, fn, params) ==
    CASE fn = "clean" -> clean_dataset(df)
      [] fn = "regression" ->
            linear_regression_analysis(df, params.target, params.features, FrameEnv)
      [] fn = "clustering" ->
            clustering_analysis(df, params.k,
                                [given |-> params.features # <<>>, names |-> params.features],
                                FrameEnv)
      [] fn = "classification" ->
            classification_analysis(df, params.target, params.features, FrameEnv)
      [] fn = "descriptive" -> descriptive_statistics(df, <<>>, FrameEnv)
      [] fn = "correlation" -> correlation_analysis(df, "pearson", FrameEnv)

\* C24: after any sequence of calls to the cleaner and the pipelines on the
\* same table, the table equals its initial value, the sub-analyses of a
\* quick request leave the cleaned table as they got it, and each call
\* returns what it returns as the first call on the initial table.
C24_TableNeverModified ==
    /\ callRes.table = callArgs.df
    /\ callRes.fn = "quick" => callRes.result.left = callRes.result.passed
    /\ callRes.fn \notin {"none", "quick"} =>
          callRes.result = FreshResult(callArgs.df, callRes.fn, callRes.params)

\* a second call, a regression, after a cleaner call whose cleaned copy
\* differs from the table: the table still holds its numeric text
C24_Witness ==
    /\ callPc = 2
    /\ callRes.fn = "regression"
    /\ callRes.params.features = <<"b", "a">>
    /\ callRes.result.outcome = "success"
    /\ ~is_numeric_dtype(Col(callArgs.df, "b"))
    /\ is_numeric_dtype(Col(clean_dataset(callArgs.df), "b"))
    /\ callRes.table = callArgs.df

\* a quick request: its six sub-analyses ran on the cleaned table
C24_WitnessQuick ==
    /\ callRes.fn = "quick"
    /\ callRes.result.outcomes = <<"success", "success">>
    /\ callRes.result.passed # callArgs.df
    /\ callRes.result.left = callRes.result.passed

(***************************************************************************)
(* Dispatcher claims on routing and on what create stores.                 *)
(***************************************************************************)
\* C25: every analysis_type that request validation accepts is routed by
\* create to a pipeline: no validated request is answered 'Unsupported
\* analysis type'.
C25_ValidatedTypesAreRouted ==
    (/\ trace.handler = "create"
     /\ trace.request.analysis_type \in ANALYSIS_TYPES
     /\ trace.request.dataset_id # 0) =>
        response.body # ErrorTree("Unsupported analysis type")

\* a request of type prediction passed validation, found and read its
\* dataset, and was answered 400 'Unsupported analysis type' with no pipeline
\* called
C25_PredictionUnsupported ==
    /\ trace.handler = "create"
    /\ trace.request.analysis_type = "prediction"
    /\ trace.request.analysis_type \in ANALYSIS_TYPES
    /\ trace.steps = <<"validate", "get", "read", "dispatch">>
    /\ trace.calls = <<>>
    /\ response = HttpResponse(400, ErrorTree("Unsupported analysis type"))

\* C26: create stores an Analysis record and answers 201 only when the
\* pipeline returned a Success result; a Failure result (a record carrying
\* 'error') creates no record.
C26_StoresOnlySuccess ==
    /\ (trace.handler = "create" /\ response.status = 201) =>
          \A i \in 1..Len(trace.calls) : trace.calls[i].outcome = "success"
    /\ \A i \in 1..Len(analyses) :
          \A k \in 1..Len(analyses[i].results.keys) : analyses[i].results.keys[k] # "error"

\* a regression request without a target column: the pipeline returned its
\* error record, create stored it as the results of a new Analysis and
\* answered 201
C26_FailureStored ==
    /\ trace.handler = "create"
    /\ trace.request.analysis_type = "regression"
    /\ trace.request.parameters.target_column = ""
    /\ trace.calls = <<[fn |-> "linear_regression_analysis", outcome |-> "failure"]>>
    /\ response.status = 201
    /\ Len(analyses) = 1
    /\ analyses[1].results = ErrorTree("Target column is required for regression analysis")

(***************************************************************************)
(* DatasetViewSet.create (views.py 29-77).  store holds the files of the   *)
(* storage, the Dataset records and the number of files saved so far (each *)
(* saved file gets a fresh uuid4 name).  A request carries the uploaded    *)
(* file, or none; fault names the call that raises: the storage save, the  *)
(* dataset description or the creation of the record.  A file whose        *)
(* content cannot be parsed makes read_dataset raise.                      *)
(***************************************************************************)
\* line 40: the file type from the extension
UploadFileType(ext) ==
    IF ext = ".csv" THEN "csv" ELSE IF ext \in {".xlsx", ".xls"} THEN "excel" ELSE "unknown"

\* line 43: datasets/<uuid4><ext>, a name no earlier file has
FreshPath(saved, ext) == "datasets/" \o ToString(saved + 1) \o ext

\* a handler that leaves the saved file where it is
UploadCleanup_keep(files, file_path) == files

\* lines 70-72: default_storage.delete(file_path) when the file exists
UploadCleanup(files, file_path) == IF file_path \in files THEN files \ {file_path} ELSE files

\* lines 47-73 once the file is saved under file_path: read, describe and
\* create the record, or clean up and answer 400
upload_process(store, request, file_path) ==
    IF \/ read_dataset(request.file).outcome = "raised"
       \/ request.fault \in {"info", "record"}
    THEN [store    |-> [store EXCEPT !.files = UploadCleanup(store.files, file_path)],
          response |-> HttpResponse(400, ErrorTree("Error processing file"))]
    ELSE [store    |-> [store EXCEPT !.records =
                           Append(store.records,
                                  [file |-> file_path,
                                   uploaded_by |-> request.user,
                                   file_type |-> UploadFileType(request.ext),
                                   rows_count |-> NRows(read_dataset(request.file).df),
                                   columns_count |-> Len(read_dataset(request.file).df)])],
          response |-> HttpResponse(201,
                          DictV(<<"file", "dataset_info">>,
                                <<Str(file_path),
                                  get_dataset_info(read_dataset(request.file).df)>>))]

\* DatasetViewSet.create
dataset_create(store, request) ==
    IF ~request.has_file
    THEN [store |-> store, response |-> HttpResponse(400, ErrorTree("No file provided"))]
    ELSE IF request.fault = "save"
    THEN [store |-> store, response |-> HttpResponse(500, ErrorTree("exception"))]
    ELSE upload_process([store EXCEPT !.files = store.files
                                                  \cup {FreshPath(store.saved, request.ext)},
                                      !.saved = store.saved + 1],
                        request, FreshPath(store.saved, request.ext))

(***************************************************************************)
(* Upload specification: up to MaxUploads uploads, one after the other.    *)
(***************************************************************************)
MaxUploads == 2

UploadContents ==
    {[table |-> StoredTable(3, TRUE), readable |-> TRUE], [table |-> <<>>, readable |-> FALSE]}

UploadRequests ==
    {[has_file |-> hf, file |-> c, ext |-> e, user |-> "alice", fault |-> f] :
        hf \in BOOLEAN, c \in UploadContents, e \in {".csv", ".txt"},
        f \in {"none", "save", "info", "record"}}

UploadInit ==
    /\ callArgs = <<>>
    /\ callRes = [store |-> [files |-> {}, records |-> <<>>, saved |-> 0],
                  response |-> HttpResponse(0, NoneV)]
    /\ callPc = 0
    /\ SanIdle /\ ClIdle /\ RgIdle /\ KmIdle /\ DspIdle

Upload ==
    /\ callPc < MaxUploads
    /\ \E request \in UploadRequests :
          /\ callArgs' = request
          /\ callRes' = dataset_create(callRes.store, request)
    /\ callPc' = callPc + 1
    /\ UNCHANGED <<sanVars, clVars, rgVars, kmVars, dspVars>>

UploadNext == Upload

SpecUpload == UploadInit /\ [][UploadNext]_vars

\* the files the Dataset records refer to
ReferredFiles(store) == {store.records[i].file : i \in 1..Len(store.records)}

C27_WitnessRecordFails ==
    /\ callPc = 1
    /\ callArgs.has_file
    /\ callArgs.file.readable
    /\ callArgs.fault = "record"
    /\ callRes.store = [files |-> {}, records |-> <<>>, saved |-> 1]
    /\ callRes.response.status = 400

(***************************************************************************)
(* Ownership.  Every Dataset record carries uploaded_by.  The list views   *)
(* go through get_queryset (views.py 25-27, 108-110, 216-218); the handlers *)
(* that analyse or chart a dataset load it by its id alone (lines 120, 184 *)
(* and 228-229).                                                           *)
(***************************************************************************)
Users == {"alice", "bob"}

\* DatasetViewSet.get_queryset: the ids of the datasets the user uploaded
dataset_queryset(dsets, user) ==
    {i \in 1..Len(dsets) : dsets[i].uploaded_by = user}

\* AnalysisViewSet.get_queryset: the analyses of datasets the user uploaded
analysis_queryset(dsets, stored, user) ==
    {i \in 1..Len(stored) : dsets[stored[i].dataset].uploaded_by = user}

\* VisualizationViewSet.create (views.py 220-255)
visualization_create(dsets, stored, analysis_id, chart_type, column, env) ==
    LET request == Request(IF analysis_id \in 1..Len(stored)
                           THEN stored[analysis_id].dataset ELSE 0,
                           "visualization",
                           [DefaultParams EXCEPT !.chart_type = chart_type, !.column = column])
        done(calls, steps, made, resp) ==
            Handled("visualization_create", request, env, calls, steps, made, resp)
    IN  IF analysis_id \notin 1..Len(stored)
        THEN done(<<>>, <<"get">>, <<>>, HttpResponse(404, ErrorTree("Analysis not found")))
        ELSE
        LET rd == read_dataset(dsets[stored[analysis_id].dataset])
        IN  IF rd.outcome = "raised"
            THEN done(<<>>, <<"get", "read">>, <<>>,
                      HttpResponse(500, ErrorTree("Error reading file")))
            ELSE
            LET v == create_visualization(rd.df, chart_type, column, env)
            IN  IF v.outcome = "failure"
                THEN done(<<Call("create_visualization", v)>>, <<"get", "read", "dispatch">>,
                          <<>>, HttpResponse(400, v.result))
                ELSE done(<<Call("create_visualization", v)>>,
                          <<"get", "read", "dispatch", "store", "respond">>,
                          <<[analysis |-> analysis_id, chart_type |-> chart_type,
                             data |-> v.result.items[1]]>>,
                          HttpResponse(201, DictV(<<"chart_type", "data">>,
                                                  <<Str(chart_type), v.result.items[1]>>)))

(***************************************************************************)
(* Ownership specification: alice and bob each uploaded one dataset; then  *)
(* up to MaxRequests requests, each by either user.  callArgs is the       *)
(* request's user and, for a visualization, the analysis it names;         *)
(* callRes holds the stored visualizations.                                *)
(***************************************************************************)
MaxRequests == 3

OwnInit ==
    /\ datasets = <<[table |-> StoredTable(3, TRUE), readable |-> TRUE, uploaded_by |-> "alice"],
                    [table |-> StoredTable(3, FALSE), readable |-> TRUE, uploaded_by |-> "bob"]>>
    /\ analyses = <<>>
    /\ response = HttpResponse(0, NoneV)
    /\ trace = NoTrace
    /\ callArgs = [user |-> "alice", analysis_id |-> 0]
    /\ callRes = <<>>
    /\ callPc = 0
    /\ SanIdle /\ ClIdle /\ RgIdle /\ KmIdle

\* GET /datasets/ and GET /analyses/
OwnList ==
    /\ callPc < MaxRequests
    /\ \E user \in Users :
          /\ callArgs' = [user |-> user, analysis_id |-> 0]
          /\ response' = HttpResponse(200,
                            [datasets |-> dataset_queryset(datasets, user),
                             analyses |-> analysis_queryset(datasets, analyses, user)])
          /\ trace' = [NoTrace EXCEPT !.handler = "list"]
    /\ callPc' = callPc + 1
    /\ UNCHANGED <<datasets, analyses, callRes, sanVars, clVars, rgVars, kmVars>>

\* POST /analyses/
OwnCreate ==
    /\ callPc < MaxRequests
    /\ \E user \in Users : \E id \in 1..(Len(datasets) + 1) :
       \E t \in {"descriptive", "correlation"} :
          LET h == create(datasets, Request(id, t, DefaultParams), Env("none", "0.5"))
          IN  /\ callArgs' = [user |-> user, analysis_id |-> 0]
              /\ analyses' = analyses \o h.stored
              /\ response' = h.response
              /\ trace' = h.trace
    /\ callPc' = callPc + 1
    /\ UNCHANGED <<datasets, callRes, sanVars, clVars, rgVars, kmVars>>

\* POST /analyses/quick_analysis/
OwnQuick ==
    /\ callPc < MaxRequests
    /\ \E user \in Users : \E id \in 1..(Len(datasets) + 1) :
          LET h == quick_analysis(datasets, Request(id, "quick_analysis", DefaultParams),
                                  Env("none", "0.5"))
          IN  /\ callArgs' = [user |-> user, analysis_id |-> 0]
              /\ response' = h.response
              /\ trace' = h.trace
    /\ callPc' = callPc + 1
    /\ UNCHANGED <<datasets, analyses, callRes, sanVars, clVars, rgVars, kmVars>>

\* POST /visualizations/
OwnVisualize ==
    /\ callPc < MaxRequests
    /\ \E user \in Users : \E aid \in 1..(Len(analyses) + 1) :
       \E ct \in {"histogram", "pie"} :
          LET h == visualization_create(datasets, analyses, aid, ct, "", Env("none", "0.5"))
          IN  /\ callArgs' = [user |-> user, analysis_id |-> aid]
              /\ callRes' = callRes \o h.stored
              /\ response' = h.response
              /\ trace' = h.trace
    /\ callPc' = callPc + 1
    /\ UNCHANGED <<datasets, analyses, sanVars, clVars, rgVars, kmVars>>

OwnNext == OwnList \/ OwnCreate \/ OwnQuick \/ OwnVisualize

SpecOwnership == OwnInit /\ [][OwnNext]_vars

\* the last request was answered with results of, or stored something for,
\* the dataset it names
ServedFromDataset ==
    \/ trace.handler = "create" /\ response.status = 201
    \/ trace.handler = "quick_analysis" /\ response.status = 200
    \/ trace.handler = "visualization_create" /\ response.status = 201

\* C28: a request that returns or stores results computed from a dataset was
\* made by the user who uploaded that dataset, and the list views show a
\* user only their own datasets and analyses.
C28_OnlyOwnData ==
    /\ ServedFromDataset => datasets[trace.request.dataset_id].uploaded_by = callArgs.user
    /\ trace.handler = "list" =>
          /\ \A i \in response.body.datasets : datasets[i].uploaded_by = callArgs.user
          /\ \A i \in response.body.analyses :
                datasets[analyses[i].dataset].uploaded_by = callArgs.user

\* bob asked for an analysis of alice's dataset: it was computed, stored and
\* returned
C28_ForeignDatasetAnalysed ==
    /\ callArgs.user = "bob"
    /\ trace.handler = "create"
    /\ trace.request.dataset_id = 1
    /\ datasets[1].uploaded_by = "alice"
    /\ response.status = 201
    /\ Len(analyses) > 0
    /\ analyses[Len(analyses)].dataset = 1
    /\ analyses[Len(analyses)].results =
          clean_for_json(descriptive_statistics(clean_dataset(datasets[1].table), <<>>,
                                                Env("none", "0.5")).result)

\* alice charted bob's dataset through an analysis of it
C28_ForeignDatasetCharted ==
    /\ callArgs.user = "alice"
    /\ trace.handler = "visualization_create"
    /\ response.status = 201
    /\ callArgs.analysis_id \in 1..Len(analyses)
    /\ datasets[analyses[callArgs.analysis_id].dataset].uploaded_by = "bob"
    /\ Len(callRes) > 0

\* the list views hide from bob the analysis he created on alice's dataset
C28_ListHidesForeignAnalysis ==
    /\ trace.handler = "list"
    /\ callArgs.user = "bob"
    /\ Len(analyses) > 0
    /\ response.body.analyses = {}
    /\ response.body.datasets = {2}

(***************************************************************************)
(* The regression report (services.py 564-586).  test_r2 is a cell whose   *)
(* number counts hundred-thousandths; the reported value counts            *)
(* ten-thousandths.                                                        *)
(***************************************************************************)
\* round(float(x), 4): to the nearest ten-thousandth, a tie to the even one
Round4(n) ==
    LET q == n \div 10
        r == n % 10
    IN  IF r < 5 THEN q
        ELSE IF r > 5 THEN q + 1
        ELSE IF q % 2 = 0 THEN q ELSE q + 1

\* a cell counting 1/(100 * per) as a cell in hundredths, rounded down: the
\* thresholds of _interpret_regression_results are whole hundredths, so a
\* value is >= a threshold exactly when its hundredths rounded down are
InHundredths(c, per) == IF c.k = "num" THEN Num(c.n \div per) ELSE c

\* lines 565, 572 and 586: the interpretation is made from test_r2 as the
\* metric returned it, the reported test_r2 is rounded
RegReport(test_r2, feature_importance) ==
    [test_r2 |-> IF test_r2.k = "num" THEN Num(Round4(test_r2.n)) ELSE test_r2,
     interpretation |-> interpret_regression_results(InHundredths(test_r2, 1000),
                                                     feature_importance)]

(***************************************************************************)
(* Report specification: one report for a test R-squared and the           *)
(* coefficients of up to MaxReportFeatures features.                       *)
(***************************************************************************)
MaxReportFeatures == 2

\* R-squared in hundred-thousandths: at, just below and just above each
\* threshold, negative, perfect and undefined
FineR2Samples ==
    {NaN} \cup {Num(n) : n \in {-25000, 0, 39994, 39996, 40000, 40004, 50000, 59994, 59996,
                                60000, 60004, 79994, 79996, 79999, 80000, 80004, 100000}}

ReportInit ==
    /\ \E r2 \in FineR2Samples : \E k \in 0..MaxReportFeatures :
       \E cs \in [1..k -> CoefSamples] :
          callArgs = [r2_score |-> r2,
                      feature_importance |->
                          [i \in 1..k |-> [name |-> FeatureNames[i], coef |-> cs[i]]]]
    /\ callRes = <<>>
    /\ callPc = "start"
    /\ SanIdle /\ ClIdle /\ RgIdle /\ KmIdle /\ DspIdle

ReportCall ==
    /\ callPc = "start"
    /\ callRes' = RegReport(callArgs.r2_score, callArgs.feature_importance)
    /\ callPc' = "done"
    /\ UNCHANGED <<callArgs, sanVars, clVars, rgVars, kmVars, dspVars>>

ReportNext == ReportCall

SpecReport == ReportInit /\ [][ReportNext]_vars

\* the interpretation starts with the label
StartsWithLabel(text, label) ==
    \E names \in TopNameLists(callArgs.feature_importance) :
        text = label \o " Most important features: " \o JoinNames(names)

\* C29: the label of the interpretation is the one the thresholds 0.8, 0.6
\* and 0.4 give for the reported (rounded) test R-squared.
C29_LabelAgreesWithReported ==
    (callPc = "done" /\ callRes.test_r2.k = "num") =>
        StartsWithLabel(callRes.interpretation,
                        ThresholdLabel(InHundredths(callRes.test_r2, 100)))

\* a test R-squared of 0.79996 is reported as 0.8 and labelled good
C29_ReportedExcellentLabelledGood ==
    /\ callPc = "done"
    /\ callArgs.r2_score = Num(79996)
    /\ callArgs.feature_importance = <<[name |-> "a", coef |-> 2]>>
    /\ callRes.test_r2 = Num(8000)
    /\ callRes.interpretation =
          "Good model performance with moderate explanatory power. Most important features: a"

\* away from the thresholds the two agree: 0.79994 is reported as 0.7999
C29_WitnessAgree ==
    /\ callPc = "done"
    /\ callArgs.r2_score = Num(79994)
    /\ callRes.test_r2 = Num(7999)
    /\ StartsWithLabel(callRes.interpretation,
                       "Good model performance with moderate explanatory power.")

\* the table the regression imputes: cleaned, its text features coerced
\* (services.py 313 and 336-339)
RegImputedTable(df, feature_columns) ==
    [j \in 1..Len(clean_dataset(df)) |->
        IF /\ \E f \in 1..Len(feature_columns) : feature_columns[f] = clean_dataset(df)[j].name
           /\ ~is_numeric_dtype(clean_dataset(df)[j])
        THEN CoerceColumn(clean_dataset(df)[j]) ELSE clean_dataset(df)[j]]

\* data_info.missing_values_handled of a successful result
ReportedMissingHandled(result) == result.items[6].items[3].val

\* C30: in every successful regression result, missing_values_handled is the
\* number of missing feature and target cells the pipeline imputed.
C30_HandledCountsImputed ==
    (rgPc = "done" /\ rgRes.outcome = "success") =>
        ReportedMissingHandled(rgRes.result) =
            ToString(RegImputedCells(RegImputedTable(rgDf, rgRes.info.features_used),
                                     rgRes.info.features_used, rgReq.target))

\* a fit on a table with missing cells in a feature and in the target: they
\* were imputed and the result reports 0
C30_ImputedButZeroReported ==
    /\ rgPc = "done"
    /\ rgRes.outcome = "success"
    /\ rgReq.target = "y"
    /\ RegImputedCells(RegImputedTable(rgDf, rgRes.info.features_used),
                       rgRes.info.features_used, "y") >= 2
    /\ ReportedMissingHandled(rgRes.result) = "0"

\* a fit on a table without missing cells: nothing imputed, 0 reported
C30_WitnessNothingMissing ==
    /\ rgPc = "done"
    /\ rgRes.outcome = "success"
    /\ RegImputedCells(RegImputedTable(rgDf, rgRes.info.features_used),
                       rgRes.info.features_used, rgReq.target) = 0
    /\ ReportedMissingHandled(rgRes.result) = "0"

====
